---- MODULE Spec2Model ----
(***************************************************************************)
(* Galaxy Trader mini-games: the session state machine of each mini-game  *)
(* component (src/src/pages/Minigames) and the reward commit they share,  *)
(* as one state machine.  One behaviour follows one mounted component     *)
(* (`game`) of one user.                                                  *)
(*                                                                         *)
(* React conventions used throughout:                                      *)
(*  - a handler or timer callback together with the render it causes is   *)
(*    one step; functional updaters run AT that render, in the order of   *)
(*    the component's hooks, after the synchronous part of the callback;  *)
(*  - a closure sees the state of the render that created it;             *)
(*  - the passive effects (useEffect) of a render run within the step     *)
(*    that caused the render; a setTimeout is pending until a later step. *)
(* Diamonds are counted in tenths of a diamond (0.5 -> 5, 0.2 -> 2).      *)
(***************************************************************************)
EXTENDS Integers, Sequences, FiniteSets, TLC

VARIABLES
    game,        \* the mounted mini-game component
    user,        \* useAuth().user is non-null
    today,       \* todayStr(): the current UTC day, as a day number
    store,       \* users/{uid}: diamonds, xp, minigames[gameId]
    store0,      \* history: the store at the start of the behaviour
    calls,       \* the number of awardAndMark transactions in flight
    awardCalls,  \* history: awardAndMark invocations since the last Start
    committed,   \* history: a transaction has resolved without error since then
    ads,         \* history: ad-continues taken since the last Start
    toast,       \* the kind of the last toast shown: toast.error, .success, .info
    c,           \* the component: its state hooks and refs, by name
    fn           \* the call of a generator in progress: its locals, by name

vars == << game, user, today, store, store0, calls, awardCalls, committed, ads, toast, c, fn >>

\* What no session handler touches.
env == << game, user, today, fn >>
storeVars == << store, store0, calls, awardCalls, committed >>
\* What no generator touches.
sessionVars == << game, user, today, store, store0, calls, awardCalls, committed, ads, toast, c >>

\* null, where the source has number | null.
null == -1

-----------------------------------------------------------------------------
(* Bounds of the model *)
MaxCalls == 2        \* awardAndMark transactions in flight at once
MaxInvocations == 3  \* awardAndMark invocations of one behaviour of SpecAward
MaxFalling == 2      \* items, obstacles or fruit on screen at once
MaxAds == 1
MaxShuffled == 4       \* leading tiles a shuffle of the slide puzzle moves
MaxAttempts == 2       \* attempts of shuffleSolvable (200 in the code)
RouteAttempts == 1     \* attemptsLimit of generateRoutedPairs (450 in the code)
GridSize == 4          \* gridSize of ConnectFlowGrid (7 in the code)
PairCount == 2         \* pairCount of ConnectFlowGrid (6 in the code)
BoardSide == 3         \* ROWS and COLS of Match3Game (8 in the code)
MaxColours == 3        \* CANDY_COLORS.length (6 in the code)
MaxTicks == 4          \* times the clock of a frame loop is advanced
FrameMs == 16          \* the interval of two frames, in ms
StallMs == 5000        \* a long gap between two frames, in ms
FrameLag == 8          \* how far a frame's timestamp can be behind the time
StartMs == 1000        \* performance.now() as the component is mounted          \* ad-continues per session
MaxCoord == 16         \* the largest coordinate of an asteroid's centre, in px
MaxAsteroids == 2      \* asteroids of a collision pass (12 in the code)
MaxBullets == 2        \* bullets of a collision pass
SmallRadius == 13      \* the radius of an asteroid, of rand(12, 20)
MaxHits == 2           \* scoring hits of one session of the spawner
MaxUpdates == 9        \* frames of one run of the player's physics
CanvasH == 160         \* size.h of GalaxyRunner, in px (160 to 274 in the code)
MaxCombo == 70         \* consecutive hits of GalaxyBlaster that are followed
MaxMoves == 5
MaxPath == 4           \* cells of a path being drawn
DeckPairs == 2         \* pairs of the deck of MemoryGame (9 in the code)
MaxTaps == 6           \* card clicks of one session that are followed
MaxClicks == 3       \* handler invocations on the Rewards pages in one behaviour
MaxDate == 2         \* the last UTC day of a behaviour of SpecRewards
MaxPredicts == 3     \* handlePredict calls in one behaviour of SpecPredict

(* Program constants *)
CC_GAME_REWARD == 5          \* 0.5 diamonds
CC_XP_REWARD == 2
CC_HEARTS_START == 3
GAME_DURATION_MS == 60000
CC_TARGET_SCORE == 80
MAX_DT_MS == 60
GR_MAX_DT_MS == 50
GS_MAX_DT_MS == 40
GAME_REWARD == 2             \* 0.2 diamonds, every game but CometCatch
GR_XP_REWARD == 3
GR_START_TIME == 30          \* seconds
HEARTS_START == 3            \* GalaxyRunner, MemoryGame
GS_XP_REWARD == 2
GS_START_TIME_SEC == 60
GS_AD_CONTINUE_SECONDS == 10
GS_TARGET_SCORE == 40
GB_XP_REWARD == 5
GB_START_TIME == 30
GB_AD_CONTINUE_SECONDS == 30
GB_TARGET_SCORE == 50000
OD_XP_REWARD == 4
OD_START_TIME == 60
OD_AD_CONTINUE_SECONDS == 15
OD_TARGET_SCORE == 20000
MG_XP_REWARD == 2
MG_PAIRS == 9                \* assetNames
SP_XP_REWARD == 2
SP_TOTAL_SECONDS == 90
SP_AD_CONTINUE_SECONDS == 60
SP_ROWS == 3
SP_COLS == 3
CG_XP_REWARD == 4
M3_XP_REWARD == 2
M3_START_TIME_SEC == 80
CF_XP_REWARD == 2
CF_START_TIME_SEC == 20
CF_AD_CONTINUE_SECONDS == 10
M3_FILL_ATTEMPTS == 12

OD_BULLET_RADIUS == 4
OD_HIT_SCORE == 12
OD_KILL_FACTOR == 18
OD_KILL_BONUS == 60
OD_HP_UNIT == 12

GR_MIN_INTERVAL_MS == 520
OD_MIN_INTERVAL_MS == 220
GB_MIN_INTERVAL_MS == 180
GB_BASE_SPAWN_INTERVAL_MS == 650
OD_BASE_ASTEROID_SPAWN_MS == 700

GB_COMBO_STEP == 4
GB_MULT_CAP == 300           \* min(3, ...) in hundredths

\* Rewards (part_008): the daily ad limit, the initial exchangeAmount state
\* (10 diamonds, in tenths of a diamond), and the credits 10 diamonds buy.
AD_LIMIT == 20
EXCHANGE_AMOUNT == 100
CREDITS_PER_TEN == 50

\* Dashboard (part_007): the credits a prediction costs.
PREDICT_COST == 50

Games == {"CometCatch", "GalaxyRunner", "GalaxySlice", "GalaxyBlaster",
          "OrbitDefense", "MemoryGame", "SlidePuzzle", "ChessGame",
          "Match3Game", "ConnectFlowGrid"}

GameReward(g) == IF g = "CometCatch" THEN CC_GAME_REWARD ELSE GAME_REWARD
XpReward(g) == CASE g = "CometCatch" -> CC_XP_REWARD
                 [] g = "GalaxyRunner" -> GR_XP_REWARD
                 [] g = "GalaxySlice" -> GS_XP_REWARD
                 [] g = "GalaxyBlaster" -> GB_XP_REWARD
                 [] g = "OrbitDefense" -> OD_XP_REWARD
                 [] g = "MemoryGame" -> MG_XP_REWARD
                 [] g = "SlidePuzzle" -> SP_XP_REWARD
                 [] g = "ChessGame" -> CG_XP_REWARD
                 [] g = "Match3Game" -> M3_XP_REWARD
                 [] g = "ConnectFlowGrid" -> CF_XP_REWARD

\* The hearts and the time a mounted component shows.
HeartsStart(g) == CASE g = "CometCatch" -> CC_HEARTS_START
                    [] g \in {"GalaxyRunner", "MemoryGame"} -> HEARTS_START
                    [] OTHER -> 0
StartTime(g) == CASE g = "CometCatch" -> GAME_DURATION_MS
                  [] g = "GalaxyRunner" -> GR_START_TIME
                  [] g = "GalaxySlice" -> GS_START_TIME_SEC
                  [] g = "GalaxyBlaster" -> GB_START_TIME
                  [] g = "OrbitDefense" -> OD_START_TIME
                  [] g = "SlidePuzzle" -> SP_TOTAL_SECONDS
                  [] g = "Match3Game" -> M3_START_TIME_SEC
                  [] g = "ConnectFlowGrid" -> CF_START_TIME_SEC
                  [] OTHER -> 0

\* The board a mounted component shows: MemoryGame's deck as the number of
\* matched pairs and the length of flippedIndexes.
\* SlidePuzzle's board is the solved arrangement with the blank ("solved"),
\* a shuffled one, or the picture with its last tile ("complete");
\* ChessGame's is the opening position ("new") or a later one ("moved");
\* Match3Game's is a board of createBoard ("dealt"); ConnectFlowGrid's is a
\* set of pairs none of which is connected ("unconnected").
StartBoard(g) == CASE g = "MemoryGame" -> [matched |-> 0, idxs |-> 0]
                   [] g = "SlidePuzzle" -> "solved"
                   [] g = "ChessGame" -> "new"
                   [] g = "Match3Game" -> "dealt"
                   [] g = "ConnectFlowGrid" -> "unconnected"
                   [] OTHER -> "none"

Max(a, b) == IF a >= b THEN a ELSE b
Min(a, b) == IF a <= b THEN a ELSE b

-----------------------------------------------------------------------------
(* The reward commit: awardAndMark and the transaction it runs *)

\* hasPlayedToday: the ledger entry of this game carries today's date.
\* `readOk` is whether the read of the user record succeeded.
hasPlayedToday(readOk) == user /\ readOk /\ store.lastPlayed = today

\* A transaction function that skips the ledger test: every commit pays.
awardUpdateUnguarded(data, day) ==
    [ diamonds |-> data.diamonds + GameReward(game),
      xp |-> data.xp + XpReward(game),
      lastPlayed |-> day,
      reward |-> GameReward(game) ]

\* The function awardAndMark hands to runTransaction.
awardUpdate(data, day) ==
    IF data.lastPlayed = day
    THEN data
    ELSE [ diamonds |-> data.diamonds + GameReward(game),
           xp |-> data.xp + XpReward(game),
           lastPlayed |-> day,
           reward |-> GameReward(game) ]

\* awardAndMark returns at once without a user.
Invocations(n) == IF user THEN n ELSE 0

\* The component is on screen.  The state setters of a component that was
\* unmounted do nothing.
Mounted == c.gameState # "unmounted"

\* A transaction in flight commits: runTransaction applies the update
\* function to the record atomically (it re-runs the function until it has
\* run on the record as it is), then awardAndMark goes on.  CometCatch sets
\* isAwarded and shows the toast itself; the other games return true and
\* their caller shows it.
AwardCommit ==
    /\ calls > 0
    /\ store' = awardUpdate(store, today)
    /\ calls' = calls - 1
    /\ committed' = TRUE
    /\ c' = [c EXCEPT !.isAwarded = IF game = "GalaxyRunner" \/ ~Mounted
                                     THEN @ ELSE TRUE]
    /\ toast' = "success"
    /\ UNCHANGED << env, store0, awardCalls, ads >>

\* The games whose awardAndMark, or its caller, shows an error toast when
\* the transaction throws.  GalaxyRunner's caller shows one only on success.
ReportsFailure(g) == g # "GalaxyRunner"

\* The games whose caller does setIsAwarded(ok) with the result.
SetsAwardedToOk == {"GalaxyBlaster", "OrbitDefense", "SlidePuzzle", "ChessGame"}

\* A transaction in flight throws (a store error): nothing is written.
AwardFail ==
    /\ calls > 0
    /\ calls' = calls - 1
    /\ toast' = IF ReportsFailure(game) THEN "error" ELSE toast
    /\ c' = [c EXCEPT !.isAwarded = IF game \in SetsAwardedToOk /\ Mounted
                                     THEN FALSE ELSE @]
    /\ UNCHANGED << env, store, store0, awardCalls, committed, ads >>

\* awardAndMark is invoked once more (a second check of the same win, a
\* second tab of the same user): the driver of SpecAward.
AwardInvoke ==
    /\ user
    /\ awardCalls < MaxInvocations
    /\ calls < MaxCalls
    /\ calls' = calls + 1
    /\ awardCalls' = awardCalls + 1
    /\ UNCHANGED << env, store, store0, committed, ads, toast, c >>

-----------------------------------------------------------------------------
(* Parts shared by the session handlers *)

\* A Start that is refused (no user, or the daily limit): a toast and
\* nothing else.
BlockedAfterCountdown ==
    /\ toast' = "error"
    /\ c' = [c EXCEPT !.timerRef = TRUE]
    /\ UNCHANGED << env, storeVars, ads >>
Blocked ==
    /\ toast' = "error"
    /\ UNCHANGED << env, storeVars, ads, c >>

\* Why startGame refuses, or "none" when it goes on.  hasPlayedToday answers
\* false when its read fails.
Refusal(readOk) ==
    IF ~user THEN "signin"
    ELSE IF hasPlayedToday(readOk) THEN "already"
    ELSE "none"

-----------------------------------------------------------------------------
(* CometCatch *)

ItemTypes == {"gem", "comet", "bomb"}

\* The items of sequence s at the positions in set keep, in order.
RECURSIVE Kept(_, _, _)
Kept(s, keep, i) ==
    IF i > Len(s) THEN << >>
    ELSE IF i \in keep THEN << s[i] >> \o Kept(s, keep, i + 1)
    ELSE Kept(s, keep, i + 1)

\* The points of the caught items: a gem 1, a comet 2.
RECURSIVE Gain(_, _)
Gain(s, caught) ==
    IF caught = {} THEN 0
    ELSE LET i == CHOOSE k \in caught : TRUE
         IN (CASE s[i] = "gem" -> 1 [] s[i] = "comet" -> 2 [] OTHER -> 0)
            + Gain(s, caught \ {i})

Bombs(s, caught) == Cardinality({ i \in caught : s[i] = "bomb" })

\* pauseGame.
CC_pauseGame(st) ==
    [st EXCEPT !.runningRef = FALSE, !.rafRef = FALSE, !.spawnRef = FALSE]

\* startLoops, called from a render in which isAwarded is `awarded`.
CC_startLoops(st, awarded) ==
    IF st.runningRef THEN st
    ELSE [st EXCEPT !.runningRef = TRUE, !.lastTsRef = FALSE, !.rafRef = TRUE,
                    !.spawnRef = TRUE, !.loopAwarded = awarded]

\* startGame: refused without a user or when already played today;
\* otherwise the session is reset and the loops are started.
CC_startGame(readOk) ==
    /\ game = "CometCatch"
    /\ c.gameState = "idle"
    /\ IF Refusal(readOk) # "none"
         THEN Blocked
         ELSE /\ c' = CC_startLoops(
                        [c EXCEPT !.hearts = CC_HEARTS_START, !.score = 0,
                                  !.scoreRef = 0, !.timeLeft = GAME_DURATION_MS,
                                  !.entities = << >>, !.isAwarded = FALSE,
                                  !.gameState = "playing"],
                        c.isAwarded)
              /\ awardCalls' = 0
              /\ committed' = FALSE
              /\ ads' = 0
              /\ toast' = "success"
              /\ UNCHANGED << env, store, store0, calls >>

\* The comets of a run that stops one comet short of the target.
RunLength == (CC_TARGET_SCORE - 2 - c.score) \div 2

\* Away from the target: more than a comet short of it, or past it.  There
\* the gems and comets are followed in runs (CC_loopComets), the bombs one
\* by one.
CC_far == RunLength >= 1 \/ c.score >= CC_TARGET_SCORE

\* The place of an item type in the order the model keeps `falling` in; the
\* order of the array plays no part in loop.
TypeRank(t) == CASE t = "bomb" -> 1 [] t = "comet" -> 2 [] t = "gem" -> 3
                   [] t = "exploded" -> 4 [] t = "fruit1" -> 5
                   [] t = "fruit2" -> 6 [] OTHER -> 7

\* Sequence s, kept in that order, with item t added.
RECURSIVE Spawned(_, _)
Spawned(s, t) ==
    IF s = << >> THEN << t >>
    ELSE IF TypeRank(t) <= TypeRank(Head(s)) THEN << t >> \o s
    ELSE << Head(s) >> \o Spawned(Tail(s), t)

\* Sequence s put in that order.
RECURSIVE Ordered(_)
Ordered(s) == IF s = << >> THEN s ELSE Spawned(Ordered(Tail(s)), Head(s))

\* spawnObject, the callback of the spawn interval.
CC_spawnObject ==
    /\ game = "CometCatch"
    /\ c.spawnRef
    /\ Len(c.entities) < MaxFalling
    /\ \E t \in ItemTypes :
         /\ CC_far => t = "bomb"
         /\ c' = [c EXCEPT !.entities = Spawned(@, t)]
    /\ UNCHANGED << env, storeVars, ads, toast >>

\* Whether the bombs caught in a frame use up the hearts.
OutOfHeartsOffByOne(h, bombs) == bombs > 0 /\ h - bombs < 0
OutOfHearts(h, bombs) == bombs > 0 /\ h - bombs <= 0

\* The setHearts updater of a bomb caught, and the hearts after the
\* updaters of all the bombs of a frame.
CC_loseHeartUnclamped(hh) == hh - 1
CC_loseHeart(hh) == LET n == hh - 1 IN IF n <= 0 THEN 0 ELSE n

RECURSIVE HeartsAfter(_, _)
HeartsAfter(hh, bombs) ==
    IF bombs = 0 THEN hh ELSE HeartsAfter(CC_loseHeart(hh), bombs - 1)

\* One frame of loop and the render that follows it.  `elapsed` is the time
\* since the last frame, `caught` the items that touch the basket, `gone`
\* the items that leave the screen.  In the callback the win check reads
\* scoreRef as the previous render left it; at the render the timeLeft
\* updater runs first (hook order), then the falling updater, then the
\* hearts and score updaters it queued.  The last setGameState wins.
CC_loop(elapsed, caught, gone) ==
    LET dt == IF c.lastTsRef THEN Min(MAX_DT_MS, elapsed) ELSE 0
        nextT == Max(0, c.timeLeft - dt)
        checkWin == c.scoreRef >= CC_TARGET_SCORE
        timeUp == nextT <= 0
        timeWin == timeUp /\ c.scoreRef >= CC_TARGET_SCORE
        bombs == Bombs(c.entities, caught)
        outOfHearts == OutOfHearts(c.hearts, bombs)
        paused == checkWin \/ timeUp \/ outOfHearts
        n == Invocations((IF checkWin /\ ~c.loopAwarded THEN 1 ELSE 0)
                         + (IF timeWin /\ ~c.loopAwarded THEN 1 ELSE 0))
        newScore == c.score + Gain(c.entities, caught)
        moved == [c EXCEPT
                    !.lastTsRef = TRUE,
                    !.timeLeft = nextT,
                    !.score = newScore,
                    !.scoreRef = newScore,
                    !.hearts = HeartsAfter(c.hearts, bombs),
                    !.entities = Kept(@, DOMAIN c.entities \ (caught \cup gone), 1),
                    !.gameState = IF outOfHearts THEN "ad"
                                  ELSE IF timeWin THEN "win"
                                  ELSE IF timeUp THEN "lose"
                                  ELSE IF checkWin THEN "win"
                                  ELSE @]
    IN
    /\ game = "CometCatch"
    /\ c.rafRef
    /\ IF ~c.runningRef
       THEN /\ c' = [c EXCEPT !.lastTsRef = FALSE, !.rafRef = FALSE]
            /\ UNCHANGED << calls, awardCalls >>
       ELSE /\ calls + n <= MaxCalls
            /\ c' = IF paused
                    THEN [CC_pauseGame(moved) EXCEPT !.lastTsRef = FALSE]
                    ELSE moved
            /\ calls' = calls + n
            /\ awardCalls' = awardCalls + n
    /\ UNCHANGED << env, store, store0, committed, ads, toast >>

\* A run of frames in which nothing is caught and everything on screen
\* falls off, down to the last two frames before the time runs out.
CC_loopIdle ==
    /\ game = "CometCatch"
    /\ c.rafRef /\ c.runningRef /\ c.lastTsRef
    /\ c.scoreRef < CC_TARGET_SCORE
    /\ c.timeLeft > 2 * MAX_DT_MS
    /\ c' = [c EXCEPT !.timeLeft = 2 * MAX_DT_MS, !.entities = << >>]
    /\ UNCHANGED << env, storeVars, ads, toast >>

\* Such a run is possible: it has a comet, and the time left covers its
\* frames and two more.
RunFits ==
    /\ RunLength >= 1
    /\ c.timeLeft >= (RunLength + 2) * MAX_DT_MS

\* A run of frames down to the last two before the time runs out, RunLength
\* of them catching a comet spawned since the frame before: it stops one
\* comet short of the target.
CC_loopComets ==
    /\ game = "CometCatch"
    /\ c.rafRef /\ c.runningRef /\ c.lastTsRef /\ c.spawnRef
    /\ c.entities = << >>
    /\ RunFits
    /\ c' = [c EXCEPT !.score = @ + 2 * RunLength,
                      !.scoreRef = c.score + 2 * RunLength,
                      !.timeLeft = 2 * MAX_DT_MS]
    /\ UNCHANGED << env, storeVars, ads, toast >>

\* restartGame: Restart of the ad overlay, Try Again of the lose overlay.
CC_restartGame ==
    /\ game = "CometCatch"
    /\ c.gameState \in {"ad", "lose"}
    /\ c' = [CC_pauseGame(c) EXCEPT
                !.gameState = "idle", !.entities = << >>, !.score = 0,
                !.scoreRef = 0, !.timeLeft = GAME_DURATION_MS,
                !.hearts = CC_HEARTS_START]
    /\ UNCHANGED << env, storeVars, ads, toast >>

\* watchAdAndContinue: Watch Ad of the ad overlay.
CC_watchAdAndContinue ==
    /\ game = "CometCatch"
    /\ c.gameState = "ad"
    /\ ads < MaxAds
    /\ ads' = ads + 1
    /\ toast' = "info"
    /\ c' = CC_startLoops(
               [c EXCEPT !.hearts = 1, !.timeLeft = Max(@, 1000),
                         !.gameState = "playing"],
               c.isAwarded)
    /\ UNCHANGED << env, storeVars >>

\* Play Again of the win overlay.
CC_playAgain ==
    /\ game = "CometCatch"
    /\ c.gameState = "win"
    /\ c' = [c EXCEPT !.gameState = "idle", !.entities = << >>, !.score = 0,
                      !.scoreRef = 0, !.timeLeft = GAME_DURATION_MS,
                      !.hearts = CC_HEARTS_START]
    /\ UNCHANGED << env, storeVars, ads, toast >>

\* loop as the callback of requestAnimationFrame, for the frames explored
\* one by one: those in which something is caught (a gem or a comet only
\* within a comet of the target), the first frame after the loops start, the frame that sees
\* the target reached and the frames in which the time runs out.  Runs of
\* the other frames are CC_loopIdle and CC_loopComets.
CC_frame ==
    \E elapsed \in {4 * MAX_DT_MS} :
    \E caught \in SUBSET (DOMAIN c.entities) :
    \E gone \in {{}, DOMAIN c.entities \ caught} :
       /\ CC_far => \A i \in caught : c.entities[i] = "bomb"
       /\ \/ caught # {}
          \/ ~c.lastTsRef
          \/ ~c.runningRef
          \/ c.scoreRef >= CC_TARGET_SCORE
          \/ c.timeLeft <= 2 * MAX_DT_MS
       /\ CC_loop(elapsed, caught, gone)

-----------------------------------------------------------------------------
(* GalaxyRunner: survive START_TIME seconds; hearts, obstacles, countdown *)

\* useEffect(() => { gameStateRef.current = gameState }, [gameState]): the
\* effect of GalaxyRunner, GalaxyBlaster and OrbitDefense.
SyncGameStateRef(st) == [st EXCEPT !.gameStateRef = st.gameState]

\* resetGameState.
GR_resetGameState(st) ==
    [st EXCEPT !.entities = << >>, !.timeLeft = GR_START_TIME,
               !.hearts = HEARTS_START, !.invuln = FALSE]

\* stopLoop and stopCountdown.
GR_stop(st) == [st EXCEPT !.rafRef = FALSE, !.lastTsRef = FALSE, !.timerRef = FALSE]

GR_startGame(readOk) ==
    /\ game = "GalaxyRunner"
    /\ c.gameState = "idle"
    /\ IF Refusal(readOk) # "none"
         THEN Blocked
         ELSE /\ c' = [GR_resetGameState(c) EXCEPT
                         !.gameStateRef = "playing", !.gameState = "playing",
                         !.timerRef = TRUE, !.lastTsRef = TRUE, !.rafRef = TRUE]
              /\ awardCalls' = 0
              /\ committed' = FALSE
              /\ ads' = 0
              /\ UNCHANGED << env, store, store0, calls, toast >>

\* The callback of the countdown interval and its setTimeLeft updater: at 0
\* while the ref says playing, the run is won.
GR_countdown ==
    LET nt == Max(0, c.timeLeft - 1)
        win == nt <= 0 /\ c.gameStateRef = "playing"
        n == Invocations(IF win THEN 1 ELSE 0)
    IN
    /\ game = "GalaxyRunner"
    /\ c.timerRef
    /\ calls + n <= MaxCalls
    /\ c' = IF win
            THEN SyncGameStateRef([GR_stop(c) EXCEPT !.timeLeft = nt,
                                                     !.gameState = "win"])
            ELSE [c EXCEPT !.timeLeft = nt]
    /\ calls' = calls + n
    /\ awardCalls' = awardCalls + n
    /\ UNCHANGED << env, store, store0, committed, ads, toast >>

\* loop: one frame.  update does nothing unless the ref says playing; an
\* obstacle may be spawned, the obstacles may leave, and a collision
\* outside the invulnerability window costs a heart and clears the
\* obstacles; at 0 hearts showAdModalForHearts stops loop and countdown.
GR_loop(spawn, leave, collide, stillInvulnerable) ==
    LET spawned == IF spawn /\ Len(c.entities) < MaxFalling
                   THEN Append(c.entities, "obstacle") ELSE c.entities
        hit == collide /\ spawned # << >> /\ ~(c.invuln /\ stillInvulnerable)
        h == Max(0, c.hearts - 1)
    IN
    /\ game = "GalaxyRunner"
    /\ c.rafRef
    /\ IF c.gameStateRef # "playing"
       THEN c' = [c EXCEPT !.lastTsRef = TRUE] /\ toast' = toast
       ELSE IF hit
       THEN /\ c' = IF h <= 0
                    THEN [GR_stop(c) EXCEPT !.hearts = h, !.invuln = TRUE,
                             !.entities = << >>, !.gameStateRef = "ad",
                             !.gameState = "ad"]
                    ELSE [c EXCEPT !.hearts = h, !.invuln = TRUE,
                             !.entities = << >>, !.lastTsRef = TRUE]
            /\ toast' = IF h <= 0 THEN toast ELSE "error"
       ELSE /\ c' = [c EXCEPT !.entities = IF leave THEN << >> ELSE spawned,
                              !.invuln = c.invuln /\ stillInvulnerable,
                              !.lastTsRef = TRUE]
            /\ toast' = toast
    /\ UNCHANGED << env, storeVars, ads >>

GR_frame ==
    \E spawn, leave, collide, stillInvulnerable \in BOOLEAN :
        GR_loop(spawn, leave, collide, stillInvulnerable)

GR_watchAdAndContinue ==
    /\ game = "GalaxyRunner"
    /\ c.gameState = "ad"
    /\ ads < MaxAds
    /\ ads' = ads + 1
    /\ toast' = "info"
    /\ c' = [c EXCEPT !.hearts = HEARTS_START, !.invuln = TRUE,
                      !.gameStateRef = "playing", !.gameState = "playing",
                      !.lastTsRef = TRUE, !.timerRef = TRUE, !.rafRef = TRUE]
    /\ UNCHANGED << env, storeVars >>

\* End Run of the ad overlay.
GR_endRun ==
    /\ game = "GalaxyRunner"
    /\ c.gameState = "ad"
    /\ c' = SyncGameStateRef([c EXCEPT !.gameState = "lost"])
    /\ UNCHANGED << env, storeVars, ads, toast >>

GR_handlePlayAgain ==
    /\ game = "GalaxyRunner"
    /\ c.gameState \in {"win", "lost"}
    /\ c' = SyncGameStateRef([GR_resetGameState(c) EXCEPT !.gameState = "idle"])
    /\ UNCHANGED << env, storeVars, ads, toast >>

-----------------------------------------------------------------------------
(* GalaxySlice: slice fruit to TARGET_SCORE within the time; a sliced bomb *)
(* or the time running out opens the ad prompt                             *)

\* FRUIT_TYPES by score, and BOMB_TYPE; "exploded" is a sliced one that the
\* next updatePhysics drops.  The spawn timeout draws from the fruit of score
\* 1 and 3 and the bomb.
FruitKinds == {"fruit1", "fruit3", "bomb"}
FruitScore(k) == CASE k = "fruit1" -> 1 [] k = "fruit2" -> 2
                   [] k = "fruit3" -> 3 [] OTHER -> 0

GS_stop(st) == [st EXCEPT !.rafRef = FALSE, !.lastTsRef = FALSE, !.timerRef = FALSE]

\* useEffect on [score, gameState]: playing with the target reached stops
\* loop and countdown, shows the win and, unless isAwarded, awards.
GS_won(st) == st.gameState = "playing" /\ st.score >= GS_TARGET_SCORE
GS_winEffect(st) ==
    LET n == Invocations(IF GS_won(st) /\ ~st.isAwarded THEN 1 ELSE 0) IN
    /\ calls + n <= MaxCalls
    /\ c' = IF GS_won(st) THEN [GS_stop(st) EXCEPT !.gameState = "win"] ELSE st
    /\ calls' = calls + n
    /\ awardCalls' = awardCalls + n

GS_startGame(readOk) ==
    /\ game = "GalaxySlice"
    /\ c.gameState = "idle"
    /\ IF Refusal(readOk) # "none"
         THEN Blocked
         ELSE /\ c' = [c EXCEPT !.entities = << >>, !.score = 0,
                                !.timeLeft = GS_START_TIME_SEC,
                                !.isAwarded = FALSE, !.gameState = "playing",
                                !.spawnRef = TRUE, !.lastTsRef = TRUE,
                                !.rafRef = TRUE, !.timerRef = TRUE]
              /\ awardCalls' = 0
              /\ committed' = FALSE
              /\ ads' = 0
              /\ UNCHANGED << env, store, store0, calls, toast >>

\* The spawn timeout: spawnFruit and scheduleNextSpawn; it goes on while the
\* session is stopped.  Away from the last point before the target of a
\* running session the fruit are followed in a run (GS_sliceRun), the bombs
\* one by one.
GS_spawnFruit ==
    /\ game = "GalaxySlice"
    /\ c.spawnRef
    /\ Len(c.entities) < MaxFalling
    /\ \E k \in FruitKinds :
         /\ (c.score # GS_TARGET_SCORE - 1 \/ c.gameState # "playing")
               => k = "bomb"
         /\ c' = [c EXCEPT !.entities = Spawned(@, k)]
    /\ UNCHANGED << env, storeVars, ads, toast >>

\* loop and updatePhysics: the exploded fruits are dropped, and the others
\* may fall out of view.
GS_updatePhysics ==
    /\ game = "GalaxySlice"
    /\ c.rafRef
    /\ c.entities # << >>
    /\ \E gone \in BOOLEAN :
         c' = [c EXCEPT !.entities =
                  IF gone THEN << >>
                  ELSE SelectSeq(@, LAMBDA k : k # "exploded")]
    /\ UNCHANGED << env, storeVars, ads, toast >>

\* checkSliceCollisions from onPointerMove: the fruits on the segment are
\* marked exploded, their scores are added, and a bomb among them arms the
\* 80 ms timeout that opens the ad prompt.
Sliced(s, hit) == [i \in DOMAIN s |-> IF i \in hit THEN "exploded" ELSE s[i]]
RECURSIVE Gained(_, _)
Gained(s, hit) ==
    IF hit = {} THEN 0
    ELSE LET i == CHOOSE j \in hit : TRUE
         IN FruitScore(s[i]) + Gained(s, hit \ {i})

GS_checkSliceCollisions(hit) ==
    LET anyBomb == \E i \in hit : c.entities[i] = "bomb" IN
    /\ game = "GalaxySlice"
    /\ c.gameState = "playing"
    /\ GS_winEffect([c EXCEPT !.entities = Ordered(Sliced(@, hit)),
                              !.score = @ + Gained(c.entities, hit),
                              !.timeouts = IF anyBomb THEN @ \cup {"bomb"} ELSE @])
    /\ UNCHANGED << env, store, store0, committed, ads, toast >>

\* Single slices are followed near the target and for bombs.
GS_slice ==
    \E hit \in (SUBSET DOMAIN c.entities) \ {{}} :
        /\ \A i \in hit : c.entities[i] # "exploded"
        /\ \/ c.score >= GS_TARGET_SCORE - 1
           \/ \A i \in hit : c.entities[i] = "bomb"
        /\ GS_checkSliceCollisions(hit)

\* A run of spawned and sliced fruit and of ticks that leaves the score one
\* short of the target, no fruit in view and the last two seconds.
GS_sliceRun ==
    /\ game = "GalaxySlice"
    /\ c.gameState = "playing"
    /\ c.spawnRef /\ c.rafRef /\ c.timerRef
    /\ c.entities = << >>
    /\ c.score < GS_TARGET_SCORE - 1
    /\ c.timeLeft >= 2
    /\ c' = [c EXCEPT !.score = GS_TARGET_SCORE - 1, !.timeLeft = 2]
    /\ UNCHANGED << env, storeVars, ads, toast >>

\* The callback of the countdown interval with its setTimeLeft updater.
GS_tick(st) ==
    IF st.timeLeft <= 1
    THEN [st EXCEPT !.timerRef = FALSE, !.timeLeft = 0,
                    !.timeouts = @ \cup {"timeUp"}]
    ELSE [st EXCEPT !.timeLeft = @ - 1]

GS_countdown ==
    /\ game = "GalaxySlice"
    /\ c.timerRef
    /\ c.timeLeft <= 2
    /\ c' = GS_tick(c)
    /\ UNCHANGED << env, storeVars, ads, toast >>

\* A run of ticks down to the last two seconds.
GS_countdownRun ==
    /\ game = "GalaxySlice"
    /\ c.timerRef
    /\ c.timeLeft > 2
    /\ c' = [c EXCEPT !.timeLeft = 2]
    /\ UNCHANGED << env, storeVars, ads, toast >>

\* setTimeout(() => setGameState(prev => prev === "playing" ? "ad" : prev), 0)
GS_timeUpTimeout ==
    /\ game = "GalaxySlice"
    /\ "timeUp" \in c.timeouts
    /\ c' = [c EXCEPT !.timeouts = @ \ {"timeUp"},
                      !.gameState = IF @ = "playing" THEN "ad" ELSE @]
    /\ UNCHANGED << env, storeVars, ads, toast >>

\* The 80 ms timeout of a sliced bomb: stopLoop, stopCountdown, "ad".
GS_bombTimeout ==
    /\ game = "GalaxySlice"
    /\ "bomb" \in c.timeouts
    /\ c' = [GS_stop(c) EXCEPT !.timeouts = @ \ {"bomb"}, !.gameState = "ad"]
    /\ UNCHANGED << env, storeVars, ads, toast >>

GS_watchAdAndContinue ==
    /\ game = "GalaxySlice"
    /\ c.gameState = "ad"
    /\ ads < MaxAds
    /\ ads' = ads + 1
    /\ toast' = "info"
    /\ GS_winEffect([c EXCEPT !.timeLeft = @ + GS_AD_CONTINUE_SECONDS,
                              !.gameState = "playing", !.lastTsRef = TRUE,
                              !.rafRef = TRUE, !.timerRef = TRUE])
    /\ UNCHANGED << env, store, store0, committed >>

\* Restart of the ad overlay, Play Again of the win overlay.
GS_resetToIdle ==
    /\ game = "GalaxySlice"
    /\ c.gameState \in {"ad", "win"}
    /\ c' = [GS_stop(c) EXCEPT !.entities = << >>, !.score = 0,
                               !.gameState = "idle", !.spawnRef = FALSE]
    /\ UNCHANGED << env, storeVars, ads, toast >>

-----------------------------------------------------------------------------
(* GalaxyBlaster: tap enemies to TARGET_SCORE before the time is up *)

GB_resetGameState(st) ==
    [st EXCEPT !.entities = << >>, !.scoreRef = 0, !.score = 0,
               !.timeLeft = GB_START_TIME, !.isAwarded = FALSE]

GB_stopGame(st) == [st EXCEPT !.rafRef = FALSE, !.timerRef = FALSE, !.lastTsRef = FALSE]

GB_startGame(readOk) ==
    /\ game = "GalaxyBlaster"
    /\ c.gameState = "idle"
    /\ IF Refusal(readOk) # "none"
         THEN Blocked
         ELSE /\ c' = [GB_resetGameState(c) EXCEPT
                         !.gameState = "playing", !.gameStateRef = "playing",
                         !.timerRef = TRUE, !.lastTsRef = TRUE, !.rafRef = TRUE,
                         !.loopAwarded = IF c.rafRef THEN @ ELSE c.isAwarded]
              /\ awardCalls' = 0
              /\ committed' = FALSE
              /\ ads' = 0
              /\ UNCHANGED << env, store, store0, calls, toast >>

\* handlePointerDown on an enemy, as far as the session sees it: a run of
\* hits that raises scoreRef to the target.
GB_hit ==
    /\ game = "GalaxyBlaster"
    /\ c.gameStateRef = "playing"
    /\ c.scoreRef < GB_TARGET_SCORE
    /\ c' = [c EXCEPT !.scoreRef = GB_TARGET_SCORE, !.score = GB_TARGET_SCORE]
    /\ UNCHANGED << env, storeVars, ads, toast >>

\* loop and updateGame: the frame that finds the target reached.  stopGame
\* cancels the frame request, and loop then requests the next frame.
GB_loop ==
    LET n == Invocations(IF c.loopAwarded THEN 0 ELSE 1) IN
    /\ game = "GalaxyBlaster"
    /\ c.rafRef
    /\ c.scoreRef >= GB_TARGET_SCORE
    /\ c.gameStateRef = "playing"
    /\ calls + n <= MaxCalls
    /\ c' = [GB_stopGame(c) EXCEPT !.gameState = "win", !.gameStateRef = "win",
                                   !.lastTsRef = TRUE, !.rafRef = TRUE]
    /\ calls' = calls + n
    /\ awardCalls' = awardCalls + n
    /\ UNCHANGED << env, store, store0, committed, ads, toast >>

\* loop and updateGame, any other frame: updateGame does not look at the
\* game state before it spawns and moves; an enemy is spawned, or the
\* enemies move off the screen.
GB_frame ==
    /\ game = "GalaxyBlaster"
    /\ c.rafRef
    /\ ~(c.scoreRef >= GB_TARGET_SCORE /\ c.gameStateRef = "playing")
    /\ \E spawn \in BOOLEAN :
         /\ spawn => Len(c.entities) < MaxFalling
         /\ c' = [c EXCEPT !.lastTsRef = TRUE,
                           !.entities = IF spawn THEN Append(@, "enemy")
                                        ELSE << >>]
    /\ UNCHANGED << env, storeVars, ads, toast >>

\* The callback of the ticker interval.
GB_tick(st) ==
    LET nt == Max(0, st.timeLeft - 1) IN
    IF nt <= 0
    THEN [GB_stopGame(st) EXCEPT !.timeLeft = nt, !.gameState = "ad",
                                 !.gameStateRef = "ad"]
    ELSE [st EXCEPT !.timeLeft = nt]

GB_ticker ==
    /\ game = "GalaxyBlaster"
    /\ c.timerRef
    /\ c.timeLeft <= 2
    /\ c' = GB_tick(c)
    /\ UNCHANGED << env, storeVars, ads, toast >>

\* A run of ticks down to the last two seconds.
GB_tickerRun ==
    /\ game = "GalaxyBlaster"
    /\ c.timerRef
    /\ c.timeLeft > 2
    /\ c' = [c EXCEPT !.timeLeft = 2]
    /\ UNCHANGED << env, storeVars, ads, toast >>

GB_watchAdAndContinue ==
    /\ game = "GalaxyBlaster"
    /\ c.gameState = "ad"
    /\ ads < MaxAds
    /\ ads' = ads + 1
    /\ toast' = "info"
    /\ c' = [c EXCEPT !.gameState = "playing", !.gameStateRef = "playing",
                      !.timeLeft = @ + GB_AD_CONTINUE_SECONDS,
                      !.timerRef = TRUE, !.lastTsRef = TRUE, !.rafRef = TRUE,
                      !.loopAwarded = IF c.rafRef THEN @ ELSE c.isAwarded]
    /\ UNCHANGED << env, storeVars >>

\* End Run of the ad overlay.
GB_endRun ==
    /\ game = "GalaxyBlaster"
    /\ c.gameState = "ad"
    /\ c' = [c EXCEPT !.gameState = "lost", !.gameStateRef = "lost"]
    /\ UNCHANGED << env, storeVars, ads, toast >>

GB_handlePlayAgain ==
    /\ game = "GalaxyBlaster"
    /\ c.gameState \in {"win", "lost"}
    /\ c' = [GB_resetGameState(c) EXCEPT !.gameState = "idle",
                                         !.gameStateRef = "idle"]
    /\ UNCHANGED << env, storeVars, ads, toast >>

-----------------------------------------------------------------------------
(* OrbitDefense: shoot asteroids to TARGET_SCORE before the time is up *)

OD_resetAll(st) ==
    [st EXCEPT !.entities = << >>, !.scoreRef = 0, !.score = 0,
               !.timeLeft = OD_START_TIME, !.isAwarded = FALSE]

OD_startGame(readOk) ==
    /\ game = "OrbitDefense"
    /\ c.gameState = "idle"
    /\ IF Refusal(readOk) # "none"
         THEN Blocked
         ELSE /\ c' = SyncGameStateRef([OD_resetAll(c) EXCEPT
                         !.gameState = "playing",
                         !.timerRef = TRUE, !.lastTsRef = TRUE, !.rafRef = TRUE,
                         !.loopAwarded = IF c.rafRef THEN @ ELSE c.isAwarded,
                         !.loopTimer = ~c.rafRef])
              /\ awardCalls' = 0
              /\ committed' = FALSE
              /\ ads' = 0
              /\ UNCHANGED << env, store, store0, calls, toast >>

\* The bullets of update, as far as the session sees them: a run of hits
\* that raises scoreRef to the target.  The win check of the same frame is
\* OD_loop.
OD_hit ==
    /\ game = "OrbitDefense"
    /\ c.rafRef
    /\ c.gameStateRef = "playing"
    /\ c.scoreRef < OD_TARGET_SCORE
    /\ c' = [c EXCEPT !.scoreRef = OD_TARGET_SCORE, !.score = OD_TARGET_SCORE]
    /\ UNCHANGED << env, storeVars, ads, toast >>

\* loop, update and finishWin: the frame that finds the target reached.
\* stopLoop cancels the frame request, and loop then requests the next one.
\* stopTimer reads the interval id from the startTimer function of its own
\* render, so the finishWin of a loop that an earlier render started clears
\* nothing.
OD_loop ==
    LET n == Invocations(IF c.loopAwarded THEN 0 ELSE 1) IN
    /\ game = "OrbitDefense"
    /\ c.rafRef
    /\ c.scoreRef >= OD_TARGET_SCORE
    /\ c.gameStateRef = "playing"
    /\ calls + n <= MaxCalls
    /\ c' = SyncGameStateRef([c EXCEPT
                 !.timerRef = IF c.loopTimer THEN FALSE ELSE @,
                 !.gameState = "win", !.lastTsRef = TRUE, !.rafRef = TRUE])
    /\ calls' = calls + n
    /\ awardCalls' = awardCalls + n
    /\ UNCHANGED << env, store, store0, committed, ads, toast >>

\* The callback of the timer interval with its setTimeLeft updater.
OD_tick(st) ==
    LET nt == Max(0, st.timeLeft - 1) IN
    IF nt <= 0
    THEN SyncGameStateRef([st EXCEPT !.timeLeft = nt, !.rafRef = FALSE,
                              !.lastTsRef = FALSE, !.timerRef = FALSE,
                              !.gameState = "ad"])
    ELSE [st EXCEPT !.timeLeft = nt]

OD_timer ==
    /\ game = "OrbitDefense"
    /\ c.timerRef
    /\ c.timeLeft <= 2
    /\ c' = OD_tick(c)
    /\ UNCHANGED << env, storeVars, ads, toast >>

\* A run of ticks down to the last two seconds.
OD_timerRun ==
    /\ game = "OrbitDefense"
    /\ c.timerRef
    /\ c.timeLeft > 2
    /\ c' = [c EXCEPT !.timeLeft = 2]
    /\ UNCHANGED << env, storeVars, ads, toast >>

OD_watchAdAndContinue ==
    /\ game = "OrbitDefense"
    /\ c.gameState = "ad"
    /\ ads < MaxAds
    /\ ads' = ads + 1
    /\ toast' = "info"
    /\ c' = SyncGameStateRef([c EXCEPT !.gameState = "playing",
                      !.timeLeft = @ + OD_AD_CONTINUE_SECONDS,
                      !.timerRef = TRUE, !.lastTsRef = TRUE, !.rafRef = TRUE,
                      !.loopAwarded = IF c.rafRef THEN @ ELSE c.isAwarded,
                      !.loopTimer = ~c.rafRef])
    /\ UNCHANGED << env, storeVars >>

\* End Run of the ad overlay.
OD_endRun ==
    /\ game = "OrbitDefense"
    /\ c.gameState = "ad"
    /\ c' = SyncGameStateRef([c EXCEPT !.gameState = "lost"])
    /\ UNCHANGED << env, storeVars, ads, toast >>

OD_handlePlayAgain ==
    /\ game = "OrbitDefense"
    /\ c.gameState \in {"win", "lost"}
    /\ c' = SyncGameStateRef([OD_resetAll(c) EXCEPT !.gameState = "idle"])
    /\ UNCHANGED << env, storeVars, ads, toast >>

-----------------------------------------------------------------------------
(* MemoryGame: match all pairs; a mismatch costs a heart *)

\* startGame: a new deck is previewed face up for PREVIEW_MS.
MG_startGame(readOk) ==
    /\ game = "MemoryGame"
    /\ c.gameState = "idle"
    /\ IF Refusal(readOk) # "none"
         THEN Blocked
         ELSE /\ c' = [c EXCEPT !.board = [matched |-> 0, idxs |-> 0],
                                !.hearts = HEARTS_START, !.isAwarded = FALSE,
                                !.lockFlip = TRUE, !.gameState = "preview",
                                !.timeouts = @ \cup {"preview"}]
              /\ awardCalls' = 0
              /\ committed' = FALSE
              /\ ads' = 0
              /\ UNCHANGED << env, store, store0, calls, toast >>

MG_previewTimeout ==
    /\ game = "MemoryGame"
    /\ "preview" \in c.timeouts
    /\ c' = [c EXCEPT !.timeouts = @ \ {"preview"}, !.lockFlip = FALSE,
                      !.gameState = "playing"]
    /\ UNCHANGED << env, storeVars, ads, toast >>

\* handleFlip on a face-down card: the second flipped index arms the 20 ms
\* comparison.
MG_handleFlip ==
    /\ game = "MemoryGame"
    /\ c.gameState = "playing"
    /\ ~c.lockFlip
    /\ c.board.idxs < 2
    /\ c' = [c EXCEPT !.board.idxs = @ + 1,
                      !.timeouts = IF c.board.idxs + 1 = 2
                                   THEN @ \cup {"compare"} ELSE @]
    /\ UNCHANGED << env, storeVars, ads, toast >>

\* The win detection effect on [matchedCount, totalCards, gameState].
MG_winEffect(st) ==
    LET won == st.gameState = "playing" /\ st.board.matched = MG_PAIRS
        n == Invocations(IF won /\ ~st.isAwarded THEN 1 ELSE 0)
    IN
    /\ calls + n <= MaxCalls
    /\ c' = IF won THEN [st EXCEPT !.gameState = "win"] ELSE st
    /\ calls' = calls + n
    /\ awardCalls' = awardCalls + n

\* The comparison of the two flipped cards: a match marks the pair, a
\* mismatch locks the flips and arms the flip-back.  Matches are followed
\* one at a time for the last pair.
MG_compareTimeout ==
    /\ game = "MemoryGame"
    /\ "compare" \in c.timeouts
    /\ \E match \in BOOLEAN :
         IF match
         THEN /\ c.board.matched = MG_PAIRS - 1
              /\ MG_winEffect([c EXCEPT !.timeouts = @ \ {"compare"},
                                        !.board = [matched |-> @.matched + 1,
                                                   idxs |-> 0]])
         ELSE /\ c.board.matched < MG_PAIRS - 1
              /\ c' = [c EXCEPT !.timeouts = (@ \ {"compare"}) \cup {"flipBack"},
                                !.lockFlip = TRUE]
              /\ UNCHANGED << calls, awardCalls >>
    /\ UNCHANGED << env, store, store0, committed, ads, toast >>

\* A run of flips and matches that leaves one pair to find.
MG_matchRun ==
    /\ game = "MemoryGame"
    /\ c.gameState = "playing"
    /\ ~c.lockFlip
    /\ c.board.idxs = 0
    /\ c.board.matched < MG_PAIRS - 1
    /\ c' = [c EXCEPT !.board.matched = MG_PAIRS - 1]
    /\ UNCHANGED << env, storeVars, ads, toast >>

\* The FLIP_BACK_DELAY timeout of a mismatch: the cards are flipped back
\* and a heart is lost; at 0 hearts the ad prompt opens.
MG_flipBackTimeout ==
    LET n == c.hearts - 1 IN
    /\ game = "MemoryGame"
    /\ "flipBack" \in c.timeouts
    /\ c' = [c EXCEPT !.timeouts = @ \ {"flipBack"}, !.board.idxs = 0,
                      !.lockFlip = FALSE,
                      !.hearts = IF n <= 0 THEN 0 ELSE n,
                      !.gameState = IF n <= 0 THEN "ad" ELSE @]
    /\ UNCHANGED << env, storeVars, ads, toast >>

MG_watchAdAndContinue ==
    /\ game = "MemoryGame"
    /\ c.gameState = "ad"
    /\ ads < MaxAds
    /\ ads' = ads + 1
    /\ toast' = "info"
    /\ MG_winEffect([c EXCEPT !.hearts = Max(1, @ + 1), !.gameState = "playing"])
    /\ UNCHANGED << env, store, store0, committed >>

\* Restart of the ad overlay and Play Again of the win overlay:
\* setGameState("idle") and nothing else.
MG_toIdle ==
    /\ game = "MemoryGame"
    /\ c.gameState \in {"ad", "win"}
    /\ c' = [c EXCEPT !.gameState = "idle"]
    /\ UNCHANGED << env, storeVars, ads, toast >>

-----------------------------------------------------------------------------
(* SlidePuzzle: restore the picture before the time is up *)

SP_startGame(readOk) ==
    /\ game = "SlidePuzzle"
    /\ c.gameState = "idle"
    /\ IF Refusal(readOk) # "none"
         THEN Blocked
         ELSE /\ c' = [c EXCEPT !.board = "shuffled", !.isAwarded = FALSE,
                                !.timeLeft = SP_TOTAL_SECONDS,
                                !.gameState = "preview",
                                !.timeouts = @ \cup {"preview"}]
              /\ awardCalls' = 0
              /\ committed' = FALSE
              /\ ads' = 0
              /\ UNCHANGED << env, store, store0, calls, toast >>

\* The PREVIEW_MS timeout, were it an interval: it stays armed.
SP_previewTimeoutRearmed ==
    /\ game = "SlidePuzzle"
    /\ "preview" \in c.timeouts
    /\ c' = [c EXCEPT !.gameState = "playing", !.timerRef = TRUE]
    /\ UNCHANGED << env, storeVars, ads, toast >>

\* The PREVIEW_MS timeout: playing, startTimer.
SP_previewTimeout ==
    /\ game = "SlidePuzzle"
    /\ "preview" \in c.timeouts
    /\ c' = [c EXCEPT !.timeouts = @ \ {"preview"}, !.gameState = "playing",
                      !.timerRef = TRUE]
    /\ UNCHANGED << env, storeVars, ads, toast >>

\* The effect on [isSolved, gameState]: a solved board while playing locks
\* the session, stops the timer and arms the 320 ms reveal.
SP_solvedEffect(st) ==
    IF st.gameState = "playing" /\ st.board = "solved"
    THEN [st EXCEPT !.gameState = "locked", !.timerRef = FALSE,
                    !.timeouts = @ \cup {"reveal"}]
    ELSE st

\* onTileClick and swapTiles, as far as the session sees them: the run of
\* moves that solves the board.
SP_solve ==
    /\ game = "SlidePuzzle"
    /\ c.gameState = "playing"
    /\ c.board = "shuffled"
    /\ c' = SP_solvedEffect([c EXCEPT !.board = "solved"])
    /\ UNCHANGED << env, storeVars, ads, toast >>

\* The reveal timeout: the last tile is placed, the session is won and,
\* unless isAwarded, the reward is committed.
SP_revealTimeout ==
    LET n == Invocations(IF c.isAwarded THEN 0 ELSE 1) IN
    /\ game = "SlidePuzzle"
    /\ "reveal" \in c.timeouts
    /\ calls + n <= MaxCalls
    /\ c' = [c EXCEPT !.timeouts = @ \ {"reveal"}, !.board = "complete",
                      !.gameState = "win"]
    /\ calls' = calls + n
    /\ awardCalls' = awardCalls + n
    /\ UNCHANGED << env, store, store0, committed, ads, toast >>

\* The callback of the timer interval with its setTimeLeft updater.
SP_tick(st) ==
    IF st.timeLeft <= 1
    THEN [st EXCEPT !.timerRef = FALSE, !.timeLeft = 0,
                    !.timeouts = @ \cup {"timeUp"}]
    ELSE [st EXCEPT !.timeLeft = @ - 1]

SP_timer ==
    /\ game = "SlidePuzzle"
    /\ c.timerRef
    /\ c.timeLeft <= 2
    /\ c' = SP_tick(c)
    /\ UNCHANGED << env, storeVars, ads, toast >>

\* A run of ticks down to the last two seconds.
SP_timerRun ==
    /\ game = "SlidePuzzle"
    /\ c.timerRef
    /\ c.timeLeft > 2
    /\ c' = [c EXCEPT !.timeLeft = 2]
    /\ UNCHANGED << env, storeVars, ads, toast >>

\* setTimeout(() => setGameState(prev => prev === "playing" ? "ad" : prev), 0)
SP_timeUpTimeout ==
    /\ game = "SlidePuzzle"
    /\ "timeUp" \in c.timeouts
    /\ c' = [c EXCEPT !.timeouts = @ \ {"timeUp"},
                      !.gameState = IF @ = "playing" THEN "ad" ELSE @]
    /\ UNCHANGED << env, storeVars, ads, toast >>

SP_watchAdAndContinue ==
    /\ game = "SlidePuzzle"
    /\ c.gameState = "ad"
    /\ ads < MaxAds
    /\ ads' = ads + 1
    /\ toast' = "info"
    /\ c' = SP_solvedEffect([c EXCEPT !.timeLeft = @ + SP_AD_CONTINUE_SECONDS,
                                      !.gameState = "playing", !.timerRef = TRUE])
    /\ UNCHANGED << env, storeVars >>

\* Play Again of the win modal.
SP_resetToIdle ==
    /\ game = "SlidePuzzle"
    /\ c.gameState = "win"
    /\ c' = [c EXCEPT !.board = "solved", !.gameState = "idle",
                      !.isAwarded = FALSE, !.timeLeft = SP_TOTAL_SECONDS,
                      !.timerRef = FALSE]
    /\ UNCHANGED << env, storeVars, ads, toast >>

-----------------------------------------------------------------------------
(* ChessGame: checkmate the bot *)

\* startGame, the Start button of the idle overlay and the Play Again
\* button of the win and locked controls.
CG_startGame(readOk) ==
    /\ game = "ChessGame"
    /\ c.gameState \in {"idle", "win", "locked"}
    /\ IF Refusal(readOk) # "none"
         THEN Blocked
         ELSE /\ c' = [c EXCEPT !.board = "new", !.gameState = "playing",
                                !.isAwarded = FALSE]
              /\ awardCalls' = 0
              /\ committed' = FALSE
              /\ ads' = 0
              /\ UNCHANGED << env, store, store0, calls, toast >>

\* onSquareClick on a legal destination: the move is made and
\* handlePostMove is armed.
CG_onSquareClick ==
    /\ game = "ChessGame"
    /\ c.gameState = "playing"
    /\ c.timeouts = {}
    /\ c' = [c EXCEPT !.board = "moved", !.timeouts = {"postMove"}]
    /\ UNCHANGED << env, storeVars, ads, toast >>

\* handlePostMove after White's move ("postMove") or the bot's ("postBot"):
\* checkmate by White wins and commits the reward, checkmate by Black or
\* a draw locks the board, otherwise the game goes on.
CG_handlePostMove ==
    \E after \in c.timeouts \cap {"postMove", "postBot"} :
    \E over \in {"mate", "draw", "no"} :
        LET n == Invocations(IF over = "mate" /\ after = "postMove" /\ ~c.isAwarded
                             THEN 1 ELSE 0)
        IN
        /\ game = "ChessGame"
        /\ calls + n <= MaxCalls
        /\ c' = [c EXCEPT
                   !.timeouts = IF over = "no" /\ after = "postMove"
                                THEN {"bot"} ELSE {},
                   !.gameState = CASE over = "no" -> @
                                   [] over = "mate" /\ after = "postMove" -> "win"
                                   [] OTHER -> "locked"]
        /\ toast' = CASE over = "no" -> toast
                       [] over = "draw" -> "info"
                       [] after = "postBot" -> "error"
                       [] OTHER -> toast
        /\ calls' = calls + n
        /\ awardCalls' = awardCalls + n
        /\ UNCHANGED << env, store, store0, committed, ads >>

\* makeBotMove: the bot's reply, after which handlePostMove is armed.
CG_makeBotMove ==
    /\ game = "ChessGame"
    /\ "bot" \in c.timeouts
    /\ c' = [c EXCEPT !.timeouts = {"postBot"}]
    /\ UNCHANGED << env, storeVars, ads, toast >>

-----------------------------------------------------------------------------
(* Match3Game and ConnectFlowGrid: the Start of a session *)

\* startGame of Match3Game: a new board, and the countdown is started.
M3_startGame(readOk) ==
    /\ game = "Match3Game"
    /\ c.gameState = "idle"
    /\ IF Refusal(readOk) # "none"
         THEN Blocked
         ELSE /\ c' = [c EXCEPT !.board = "dealt", !.score = 0,
                                !.isAwarded = FALSE,
                                !.timeLeft = M3_START_TIME_SEC,
                                !.gameState = "playing", !.timerRef = TRUE]
              /\ awardCalls' = 0
              /\ committed' = FALSE
              /\ ads' = 0
              /\ UNCHANGED << env, store, store0, calls, toast >>

\* What generateRoutedPairs returns, by the origin of the paths alone: the
\* pairs of a successful attempt carry the path they were routed by, those
\* of the fallback carry none.
CF_generated(routed) ==
    [k \in 1 .. PairCount |->
        [id |-> k - 1, connected |-> FALSE,
         path |-> IF routed THEN "routed" ELSE "undefined"]]

\* The pairs given to setPairs: generated.map(p => ({...p, path: undefined,
\* connected: false})).
CF_displayExposed(generated) ==
    [k \in DOMAIN generated |-> [generated[k] EXCEPT !.connected = FALSE]]
CF_display(generated) ==
    [k \in DOMAIN generated |->
        [generated[k] EXCEPT !.path = "undefined", !.connected = FALSE]]

\* startGame of ConnectFlowGrid: new pairs are previewed for PREVIEW_MS.
CF_startGame(readOk) ==
    /\ game = "ConnectFlowGrid"
    /\ c.gameState = "idle"
    /\ IF Refusal(readOk) # "none"
         THEN Blocked
         ELSE /\ \E routed \in BOOLEAN :
                   c' = [c EXCEPT !.board = "unconnected", !.isAwarded = FALSE,
                                  !.solutionRef = CF_generated(routed),
                                  !.pairs = CF_display(CF_generated(routed)),
                                  !.timeLeft = CF_START_TIME_SEC,
                                  !.gameState = "preview",
                                  !.timeouts = @ \cup {"preview"}]
              /\ awardCalls' = 0
              /\ committed' = FALSE
              /\ ads' = 0
              /\ UNCHANGED << env, store, store0, calls, toast >>

\* The preview timeout of ConnectFlowGrid: playing, and startTimer.
CF_previewTimeout ==
    /\ game = "ConnectFlowGrid"
    /\ "preview" \in c.timeouts
    /\ c' = [c EXCEPT !.timeouts = @ \ {"preview"}, !.gameState = "playing",
                      !.timerRef = TRUE]
    /\ UNCHANGED << env, storeVars, ads, toast >>

\* commitTempPathAsPair, called by onPointerMove when the path drawn from
\* one endpoint of a pair not yet connected reaches the other: the pair is
\* connected by the path drawn, and the win check is armed.  (Which cells
\* the paths take is left out: any pair not yet connected may be next.)
CF_commitTempPathAsPair ==
    /\ game = "ConnectFlowGrid"
    /\ c.gameState = "playing"
    /\ \E k \in DOMAIN c.pairs :
         /\ ~c.pairs[k].connected
         /\ c' = [c EXCEPT !.pairs[k].connected = TRUE,
                           !.pairs[k].path = "drawn",
                           !.board = "drawn",
                           !.timeouts = @ \cup {"check"}]
    /\ toast' = "success"
    /\ UNCHANGED << env, storeVars, ads >>

\* The win check, 80 ms after a commit: with every pair connected the
\* timer is stopped, the session is won and, unless isAwarded, the reward
\* is committed.
CF_checkTimeout ==
    LET all == \A k \in DOMAIN c.pairs : c.pairs[k].connected
        n == Invocations(IF all /\ ~c.isAwarded THEN 1 ELSE 0)
    IN
    /\ game = "ConnectFlowGrid"
    /\ "check" \in c.timeouts
    /\ calls + n <= MaxCalls
    /\ c' = IF all
            THEN [c EXCEPT !.timeouts = @ \ {"check"}, !.timerRef = FALSE,
                           !.gameState = "win"]
            ELSE [c EXCEPT !.timeouts = @ \ {"check"}]
    /\ calls' = calls + n
    /\ awardCalls' = awardCalls + n
    /\ UNCHANGED << env, store, store0, committed, ads, toast >>

\* The callback of the timer interval with its setTimeLeft updater; a run
\* of ticks leads to the last two seconds.
CF_timer ==
    /\ game = "ConnectFlowGrid"
    /\ c.timerRef
    /\ c' = IF c.timeLeft > 2 THEN [c EXCEPT !.timeLeft = 2]
            ELSE IF c.timeLeft <= 1
            THEN [c EXCEPT !.timeLeft = 0, !.timerRef = FALSE,
                           !.timeouts = @ \cup {"timeUp"}]
            ELSE [c EXCEPT !.timeLeft = @ - 1]
    /\ UNCHANGED << env, storeVars, ads, toast >>

\* The time-up timeout: AdPrompt, if the session is still playing.
CF_timeUpTimeout ==
    /\ game = "ConnectFlowGrid"
    /\ "timeUp" \in c.timeouts
    /\ c' = [c EXCEPT !.timeouts = @ \ {"timeUp"},
                      !.gameState = IF @ = "playing" THEN "ad" ELSE @]
    /\ UNCHANGED << env, storeVars, ads, toast >>

CF_watchAdAndContinue ==
    /\ game = "ConnectFlowGrid"
    /\ c.gameState = "ad"
    /\ ads < MaxAds
    /\ ads' = ads + 1
    /\ toast' = "info"
    /\ c' = [c EXCEPT !.timeLeft = @ + CF_AD_CONTINUE_SECONDS,
                      !.gameState = "playing", !.timerRef = TRUE]
    /\ UNCHANGED << env, storeVars >>

\* Restart of the ad overlay: new pairs are displayed and the timer is
\* stopped; solutionRef is not written.
CF_restart ==
    /\ game = "ConnectFlowGrid"
    /\ c.gameState = "ad"
    /\ \E routed \in BOOLEAN :
         c' = [c EXCEPT !.gameState = "idle",
                        !.pairs = CF_display(CF_generated(routed)),
                        !.board = "unconnected", !.timerRef = FALSE]
    /\ UNCHANGED << env, storeVars, ads, toast >>

\* Play Again of the win overlay.
CF_playAgain ==
    /\ game = "ConnectFlowGrid"
    /\ c.gameState = "win"
    /\ \E routed \in BOOLEAN :
         c' = [c EXCEPT !.gameState = "idle",
                        !.solutionRef = CF_generated(routed),
                        !.pairs = CF_display(CF_generated(routed)),
                        !.board = "unconnected", !.isAwarded = FALSE,
                        !.timeLeft = CF_START_TIME_SEC]
    /\ UNCHANGED << env, storeVars, ads, toast >>

-----------------------------------------------------------------------------
(* Leaving a game: the Exit buttons and the unmount cleanup *)

\* The timeouts whose handle the component keeps in a ref and its unmount
\* cleanup clears.  The other setTimeout calls keep no handle.
ClearedOnUnmount(g) ==
    IF g \in {"MemoryGame", "SlidePuzzle", "ConnectFlowGrid"}
    THEN {"preview"} ELSE {}

\* Exit (navigate(-1)) or any other unmount.  The cleanup effect of every
\* game cancels the animation frame and clears the intervals and the spawn
\* timer it has a ref to; the timeouts it has no handle to stay scheduled
\* (orphans).  The state hooks go with the component: the record keeps the
\* values of a mounted one, and isAwarded as it was.
Exit ==
    /\ Mounted
    /\ c' = [c EXCEPT !.gameState = "unmounted", !.gameStateRef = "idle",
                      !.hearts = HeartsStart(game), !.score = 0,
                      !.scoreRef = 0, !.timeLeft = StartTime(game),
                      !.entities = << >>, !.runningRef = FALSE,
                      !.rafRef = FALSE, !.lastTsRef = FALSE,
                      !.spawnRef = FALSE, !.loopAwarded = FALSE,
                      !.loopTimer = FALSE,
                      !.timerRef = FALSE, !.invuln = FALSE,
                      !.lockFlip = FALSE, !.board = StartBoard(game),
                      !.timeouts = {},
                      !.orphans = c.timeouts \ ClearedOnUnmount(game)]
    /\ UNCHANGED << env, storeVars, ads, toast >>

\* What a timeout that fires after the unmount may arm in its turn: the
\* compare of MemoryGame its flip-back, handlePostMove of ChessGame the
\* bot's move, and the bot's move the next handlePostMove.
LateArms(t) ==
    CASE game = "MemoryGame" /\ t = "compare" -> {{}, {"flipBack"}}
      [] game = "ChessGame" /\ t = "postMove" -> {{}, {"bot"}}
      [] game = "ChessGame" /\ t = "bot" -> {{"postBot"}}
      [] OTHER -> {{}}

\* The timeouts that may call awardAndMark: the reveal of SlidePuzzle, and
\* handlePostMove of ChessGame on a checkmate by White.
LateAwards(t, arms) ==
    CASE game = "SlidePuzzle" /\ t = "reveal" -> {~c.isAwarded}
      [] game = "ChessGame" /\ t = "postMove" /\ arms = {} ->
            {FALSE, ~c.isAwarded}
      [] OTHER -> {FALSE}

\* A timeout left scheduled by the unmount fires: its state setters do
\* nothing, its timers and its awardAndMark call are real.
LateTimeout ==
    \E t \in c.orphans : \E arms \in LateArms(t) :
    \E award \in LateAwards(t, arms) :
        LET n == Invocations(IF award THEN 1 ELSE 0) IN
        /\ ~Mounted
        /\ calls + n <= MaxCalls
        /\ c' = [c EXCEPT !.orphans = (@ \ {t}) \cup arms]
        /\ calls' = calls + n
        /\ awardCalls' = awardCalls + n
        /\ UNCHANGED << env, store, store0, committed, ads, toast >>

-----------------------------------------------------------------------------
(* SlidePuzzle: shuffleSolvable *)

SP_TOTAL == SP_ROWS * SP_COLS
SP_MISSING_INDEX == SP_TOTAL - 1

\* The Fisher-Yates pass over arr (a function on 0..n-1), from index i
\* down to 1, with draws[i] the index drawn at i.
RECURSIVE FisherYates(_, _, _)
FisherYates(arr, i, draws) ==
    IF i <= 0 THEN arr
    ELSE FisherYates([arr EXCEPT ![i] = arr[draws[i]], ![draws[i]] = arr[i]],
                     i - 1, draws)

\* The outcomes of the draws of one pass: j in 0..i at i; the draws that
\* move a tile are those of the first MaxShuffled positions.
Draws(n) ==
    LET m == Min(MaxShuffled, n)
        moving == { d \in [1 .. m - 1 -> 0 .. m - 1] : \A i \in 1 .. m - 1 : d[i] <= i }
    IN { [i \in 1 .. n - 1 |-> IF i < m THEN d[i] ELSE i] : d \in moving }

\* Array.from({length: TOTAL}, (_, i) => i).filter(i => i !== MISSING_INDEX)
SP_tiles == [i \in 0 .. SP_TOTAL - 2 |-> IF i < SP_MISSING_INDEX THEN i ELSE i + 1]

toArrayWithNull(order, blankPos) ==
    [pos \in 0 .. SP_TOTAL - 1 |->
        IF pos = blankPos THEN null
        ELSE order[IF pos < blankPos THEN pos ELSE pos - 1]]

\* candidate.filter(v => v !== null), as a sequence.
Flat(candidate) ==
    LET F[n \in 0 .. SP_TOTAL] ==
            IF n = 0 THEN << >>
            ELSE IF candidate[n - 1] = null THEN F[n - 1]
            ELSE Append(F[n - 1], candidate[n - 1])
    IN F[SP_TOTAL]

\* The inversion count of the double loop.
Inversions(flat) ==
    Cardinality({ p \in (1 .. Len(flat)) \X (1 .. Len(flat)) :
                    p[1] < p[2] /\ flat[p[1]] > flat[p[2]] })

SP_solved(candidate) ==
    \A idx \in 0 .. SP_TOTAL - 1 :
        IF idx = SP_MISSING_INDEX THEN candidate[idx] = null
        ELSE candidate[idx] = idx

\* The board returned when the attempts are used up: the solved board with
\* its first two tiles swapped.
SP_simple ==
    LET simple == [i \in 0 .. SP_TOTAL - 1 |->
                      IF i = SP_MISSING_INDEX THEN null ELSE i]
    IN IF simple[0] # null /\ simple[1] # null
       THEN [simple EXCEPT ![0] = simple[1], ![1] = simple[0]]
       ELSE simple

\* shuffleSolvable is called: arr after its first shuffle.
SP_shuffleCall ==
    \E d \in Draws(SP_TOTAL - 1) :
        fn = [op |-> "shuffleSolvable",
              arr |-> FisherYates(SP_tiles, SP_TOTAL - 2, d),
              attempts |-> 0, returned |-> FALSE, out |-> << >>]

\* One attempt of the loop: the candidate is returned, or arr is shuffled
\* again.
SP_shuffleAttempt ==
    /\ fn.op = "shuffleSolvable" /\ ~fn.returned
    /\ fn.attempts < MaxAttempts
    /\ \E blankPos \in 0 .. SP_TOTAL - 1 : \E d \in Draws(SP_TOTAL - 1) :
         LET candidate == toArrayWithNull(fn.arr, blankPos)
             solvable == Inversions(Flat(candidate)) % 2 = 0
         IN fn' = IF solvable /\ ~SP_solved(candidate)
                  THEN [fn EXCEPT !.returned = TRUE, !.out = candidate]
                  ELSE [fn EXCEPT !.arr = FisherYates(@, SP_TOTAL - 2, d),
                                  !.attempts = @ + 1]
    /\ UNCHANGED sessionVars

\* The attempts are used up: the fallback board is returned.
SP_shuffleFallback ==
    /\ fn.op = "shuffleSolvable" /\ ~fn.returned
    /\ fn.attempts >= MaxAttempts
    /\ fn' = [fn EXCEPT !.returned = TRUE, !.out = SP_simple]
    /\ UNCHANGED sessionVars

-----------------------------------------------------------------------------
(* ConnectFlowGrid: bfsPath and generateRoutedPairs.  The colour of a pair *)
(* plays no part and is left out.                                          *)

Abs(n) == IF n < 0 THEN -n ELSE n
Distance(a, b) == Abs(a.x - b.x) + Abs(a.y - b.y)
Range(f) == { f[i] : i \in DOMAIN f }
Cells(size) == [x : 0 .. size - 1, y : 0 .. size - 1]

\* The parent of the start cell in the map `came` (null in the source).
NoCell == [x |-> null, y |-> null]

\* neighbors(c, size), in the order the source pushes them.
neighbors(cell, size) ==
    (IF cell.x > 0 THEN << [cell EXCEPT !.x = @ - 1] >> ELSE << >>) \o
    (IF cell.x < size - 1 THEN << [cell EXCEPT !.x = @ + 1] >> ELSE << >>) \o
    (IF cell.y > 0 THEN << [cell EXCEPT !.y = @ - 1] >> ELSE << >>) \o
    (IF cell.y < size - 1 THEN << [cell EXCEPT !.y = @ + 1] >> ELSE << >>)

\* The path read back from the map `came`, from cell cur to the start,
\* reversed.
RECURSIVE PathBack(_, _)
PathBack(came, cur) ==
    IF cur = NoCell THEN << >>
    ELSE Append(PathBack(came, came[cur]), cur)

\* The for loop of bfsPath over the neighbours ns of cell cur.
RECURSIVE bfsScan(_, _, _, _, _, _)
bfsScan(ns, cur, q, came, goal, occupied) ==
    IF ns = << >> THEN [found |-> FALSE, q |-> q, came |-> came]
    ELSE LET nx == Head(ns) IN
         IF nx \in DOMAIN came \/ (nx # goal /\ nx \in occupied)
         THEN bfsScan(Tail(ns), cur, q, came, goal, occupied)
         ELSE IF nx = goal
         THEN [found |-> TRUE, q |-> q, came |-> came @@ (nx :> cur)]
         ELSE bfsScan(Tail(ns), cur, Append(q, nx), came @@ (nx :> cur),
                      goal, occupied)

\* The while loop of bfsPath; << >> is the null it returns.
RECURSIVE bfsLoop(_, _, _, _, _)
bfsLoop(q, came, goal, size, occupied) ==
    IF q = << >> THEN << >>
    ELSE LET r == bfsScan(neighbors(Head(q), size), Head(q), Tail(q), came,
                          goal, occupied)
         IN IF r.found THEN PathBack(r.came, goal)
            ELSE bfsLoop(r.q, r.came, goal, size, occupied)

bfsPath(start, goal, size, occupied) ==
    IF start = goal THEN << start >>
    ELSE bfsLoop(<< start >>, start :> NoCell, goal, size, occupied)

\* pairs.sort by decreasing distance of the endpoints (the sort is stable).
RECURSIVE LongestFirst(_)
LongestFirst(pairs) ==
    IF pairs = << >> THEN << >>
    ELSE LET n == Len(pairs)
             front == LongestFirst(SubSeq(pairs, 1, n - 1))
             last == pairs[n]
             k == Cardinality({ i \in 1 .. n - 1 :
                     Distance(front[i].a, front[i].b) >= Distance(last.a, last.b) })
         IN SubSeq(front, 1, k) \o << last >> \o SubSeq(front, k + 1, n - 1)

\* The set bfsPath is given for pair pp: the occupied cells without pp's
\* own endpoints.
CF_occupiedNone(occupied, pp) == {}
CF_occupiedFor(occupied, pp) == occupied \ {pp.a, pp.b}

\* The routing loop from pair i on: the pairs with their paths, or failed.
RECURSIVE CF_route(_, _, _, _)
CF_route(pairs, i, occupied, size) ==
    IF i > Len(pairs) THEN [failed |-> FALSE, pairs |-> pairs]
    ELSE LET pp == pairs[i]
             path == bfsPath(pp.a, pp.b, size, CF_occupiedFor(occupied, pp))
         IN IF path = << >> THEN [failed |-> TRUE, pairs |-> pairs]
            ELSE CF_route([pairs EXCEPT ![i].path = path], i + 1,
                          CF_occupiedFor(occupied, pp) \cup {pp.a, pp.b}
                              \cup Range(path),
                          size)

\* The endpoints in use.
CF_used(pairs) == UNION { {pairs[i].a, pairs[i].b} : i \in DOMAIN pairs }

CF_maxPairs(size, pairCount) == Min(pairCount, (size * size) \div 4)

\* The layout returned when the attempts are used up.
CF_fallbackPairs(size, pairCount) ==
    [k \in 1 .. Min(pairCount, (size * size) \div 6) |->
        LET i == k - 1 IN
        [id |-> i,
         a |-> [x |-> i % size, y |-> i \div size],
         b |-> [x |-> (i + 2) % size, y |-> (i + 2) \div size],
         connected |-> FALSE, path |-> << >>]]

\* generateRoutedPairs is called.
CF_generateCall ==
    fn = [op |-> "generateRoutedPairs", size |-> GridSize,
          pairCount |-> PairCount, attempt |-> 0, pairs |-> << >>,
          returned |-> FALSE, routed |-> FALSE]

\* The body of the pair loop: the two endpoints of the next pair are drawn
\* (within 120 tries each), or one is not found and the attempt is given up.
CF_placePair ==
    /\ fn.op = "generateRoutedPairs" /\ ~fn.returned
    /\ fn.attempt < RouteAttempts
    /\ Len(fn.pairs) < CF_maxPairs(fn.size, fn.pairCount)
    /\ \/ \E a \in Cells(fn.size) \ CF_used(fn.pairs) :
          \E b \in Cells(fn.size) \ CF_used(fn.pairs) :
             /\ Distance(a, b) > 1
             /\ fn' = [fn EXCEPT !.pairs = Append(@,
                          [id |-> Len(fn.pairs), a |-> a, b |-> b,
                           connected |-> FALSE, path |-> << >>])]
       \/ fn' = [fn EXCEPT !.pairs = << >>, !.attempt = @ + 1]
    /\ UNCHANGED sessionVars

\* The rest of an attempt whose pairs are placed: they are sorted and
\* routed; on success they are shuffled and returned.
CF_routePairs ==
    /\ fn.op = "generateRoutedPairs" /\ ~fn.returned
    /\ fn.attempt < RouteAttempts
    /\ Len(fn.pairs) = CF_maxPairs(fn.size, fn.pairCount)
    /\ LET sorted == LongestFirst(fn.pairs)
           r == CF_route(sorted, 1, CF_used(sorted), fn.size)
           n == Len(sorted)
       IN IF r.failed
          THEN fn' = [fn EXCEPT !.pairs = << >>, !.attempt = @ + 1]
          ELSE \E d \in Draws(n) :
                 LET arr == FisherYates([i \in 0 .. n - 1 |-> r.pairs[i + 1]],
                                        n - 1, d)
                 IN fn' = [fn EXCEPT !.pairs = [k \in 1 .. n |-> arr[k - 1]],
                                     !.returned = TRUE, !.routed = TRUE]
    /\ UNCHANGED sessionVars

\* The attempts are used up: the fallback layout is returned.
CF_fallback ==
    /\ fn.op = "generateRoutedPairs" /\ ~fn.returned
    /\ fn.attempt >= RouteAttempts
    /\ fn' = [fn EXCEPT !.pairs = CF_fallbackPairs(fn.size, fn.pairCount),
                        !.returned = TRUE]
    /\ UNCHANGED sessionVars

-----------------------------------------------------------------------------
(* Match3Game: createBoard, checkMatchAt and findAllMatches *)

emptyBoard == [r \in 0 .. BoardSide - 1 |-> [cc \in 0 .. BoardSide - 1 |-> null]]

\* The cells equal to val met from (r, cc) on by steps of (dr, dc), up to
\* the first other cell or the edge of the board.
RECURSIVE M3_run(_, _, _, _, _, _)
M3_run(board, r, cc, dr, dc, val) ==
    IF r \in 0 .. BoardSide - 1 /\ cc \in 0 .. BoardSide - 1 /\ board[r][cc] = val
    THEN 1 + M3_run(board, r + dr, cc + dc, dr, dc, val)
    ELSE 0

checkMatchAt(board, r, cc, horizontal) ==
    LET val == board[r][cc]
        count == IF horizontal
                 THEN 1 + M3_run(board, r, cc - 1, 0, -1, val)
                        + M3_run(board, r, cc + 1, 0, 1, val)
                 ELSE 1 + M3_run(board, r - 1, cc, -1, 0, val)
                        + M3_run(board, r + 1, cc, 1, 0, val)
    IN val # null /\ count >= 3

\* One scan of findAllMatches along a line (a row or a column, as a
\* function on 0..n-1) from index i on: the indices it marks.
RECURSIVE M3_scan(_, _, _, _, _)
M3_scan(line, i, runVal, runStart, marked) ==
    LET n == BoardSide
        v == IF i < n THEN line[i] ELSE null
    IN IF i > n THEN marked
       ELSE IF v # null /\ v = runVal
       THEN M3_scan(line, i + 1, runVal, runStart, marked)
       ELSE M3_scan(line, i + 1, v, i,
                    IF runVal # null /\ i - runStart >= 3
                    THEN marked \cup (runStart .. i - 1) ELSE marked)

findAllMatches(board) ==
    { << r, k >> : r \in 0 .. BoardSide - 1, k \in 0 .. BoardSide - 1 } \cap
    ( UNION { { << r, k >> : k \in M3_scan(board[r], 0, null, 0, {}) } :
              r \in 0 .. BoardSide - 1 }
      \cup
      UNION { { << k, cc >> :
                  k \in M3_scan([r \in 0 .. BoardSide - 1 |-> board[r][cc]],
                                0, null, 0, {}) } :
              cc \in 0 .. BoardSide - 1 } )

\* createBoard is called: the empty board, and the loops at their start.
M3_createCall ==
    fn = [op |-> "createBoard", board |-> emptyBoard, r |-> 0, cc |-> 0,
          attempts |-> 0, returned |-> FALSE]

\* One turn of the while loop of createBoard: a colour is drawn for cell
\* (r, cc); the loop goes on to the next cell when the colour makes no
\* match or the attempts are used up, and the board is returned after the
\* last cell.
M3_fillCell ==
    /\ fn.op = "createBoard" /\ ~fn.returned
    /\ \E color \in 0 .. MaxColours - 1 :
         LET board == [fn.board EXCEPT ![fn.r][fn.cc] = color]
             hor == checkMatchAt(board, fn.r, fn.cc, TRUE)
             ver == checkMatchAt(board, fn.r, fn.cc, FALSE)
             leave == (~hor /\ ~ver) \/ fn.attempts + 1 > M3_FILL_ATTEMPTS
             lastCol == fn.cc = BoardSide - 1
         IN fn' = IF ~leave
                  THEN [fn EXCEPT !.board = board, !.attempts = @ + 1]
                  ELSE [fn EXCEPT !.board = board, !.attempts = 0,
                           !.cc = IF lastCol THEN 0 ELSE @ + 1,
                           !.r = IF lastCol /\ fn.r < BoardSide - 1 THEN @ + 1 ELSE @,
                           !.returned = lastCol /\ fn.r = BoardSide - 1]
    /\ UNCHANGED sessionVars

-----------------------------------------------------------------------------
(* The daily-streak bonus: checkDailyStreak of Rewards and updateStreak of *)
(* AuthContext.  fn holds the fields of users/{uid} that only these two    *)
(* write (streak, lastLogin, as a day number or null), the snapshot a call *)
(* in progress has read, and the history of what the calls have granted.   *)

\* Every call goes on to write.
StreakWritesAlways(writer, lastLogin) ==
    TRUE

\* Whether the call goes on to write, given the day of data.lastLogin:
\* checkDailyStreak only on a new day, updateStreak always.
StreakWrites(writer, lastLogin) ==
    writer = "updateStreak" \/ lastLogin # today

\* isConsecutive: checkDailyStreak compares lastLogin with yesterday's
\* date, updateStreak the days of the month.
isConsecutive(writer, lastLogin) ==
    IF writer = "checkDailyStreak" THEN lastLogin = today - 1
    ELSE lastLogin # null /\ lastLogin + 1 = today

newStreak(writer, data) ==
    IF isConsecutive(writer, data.lastLogin) THEN data.streak + 1 ELSE 1

\* Math.min(5, 0.2 + newStreak * 0.1), in tenths of a diamond.
diamondsEarned(writer, data) == Min(50, 2 + newStreak(writer, data))

\* The snapshot of the record a streak call works on: the one its onValue
\* listener was given, or the one its get has returned.
StreakRead ==
    /\ fn.op = "streak" /\ fn.writer = "none"
    /\ user
    /\ fn.reads < MaxInvocations
    /\ \E writer \in {"checkDailyStreak", "updateStreak"} :
         fn' = [fn EXCEPT !.writer = writer, !.reads = @ + 1,
                          !.data = [diamonds |-> store.diamonds,
                                    streak |-> fn.streak,
                                    lastLogin |-> fn.lastLogin]]
    /\ UNCHANGED sessionVars

\* The rest of the call: update(userRef, {...}) writes the fields it
\* names, computed from the snapshot; nothing is written when
\* checkDailyStreak finds lastLogin is today.
StreakUpdate ==
    /\ fn.op = "streak" /\ fn.writer # "none"
    /\ IF StreakWrites(fn.writer, fn.data.lastLogin)
       THEN /\ store' = [store EXCEPT
                           !.diamonds = fn.data.diamonds
                                          + diamondsEarned(fn.writer, fn.data)]
            /\ fn' = [fn EXCEPT !.writer = "none",
                         !.streak = newStreak(fn.writer, fn.data),
                         !.lastLogin = today,
                         !.granted = @ + diamondsEarned(fn.writer, fn.data)]
       ELSE /\ fn' = [fn EXCEPT !.writer = "none"]
            /\ store' = store
    /\ UNCHANGED << game, user, today, store0, calls, awardCalls, committed,
                    ads, toast, c >>

-----------------------------------------------------------------------------
(* The simulation clock of CometCatch, GalaxyRunner and GalaxySlice: the   *)
(* last-frame reference and the step dt of a frame, in milliseconds.  fn   *)
(* holds the time (performance.now()), the reference, and of the last      *)
(* frame its timestamp and its dt.  The timestamp requestAnimationFrame    *)
(* passes is the time the frame began: it never decreases from frame to    *)
(* frame, and it can be up to FrameLag before the performance.now() that a *)
(* handler of the same frame has read.                                     *)

MaxStep(g) ==
    CASE g = "CometCatch" -> MAX_DT_MS
      [] g = "GalaxyRunner" -> GR_MAX_DT_MS
      [] g = "GalaxySlice" -> GS_MAX_DT_MS

\* The reference a frame with timestamp t measures from: CometCatch
\* `if (!last) last = ts`, GalaxyRunner `last ?? t`, GalaxySlice
\* `last || now`.
FrameLast(g, last, t) ==
    IF g = "GalaxyRunner"
    THEN (IF last = null THEN t ELSE last)
    ELSE (IF last = null \/ last = 0 THEN t ELSE last)

\* dt of a frame with timestamp t.
FrameDt(g, last, t) ==
    IF g = "GalaxySlice"
    THEN Max(0, Min(GS_MAX_DT_MS, t - FrameLast(g, last, t)))
    ELSE Min(MaxStep(g), t - FrameLast(g, last, t))

\* The reference as the loop is started at time now: startLoops of
\* CometCatch clears it, startLoop of the others reads performance.now().
ResumeLastKept(g, last, now) == last
ResumeLast(g, last, now) == IF g = "CometCatch" THEN null ELSE now

\* The reference as the loop is stopped: pauseGame of CometCatch leaves
\* it, stopLoop of the others clears it.
PauseLast(g, last) == IF g = "CometCatch" THEN last ELSE null

\* Time passes: a frame interval, or a long gap (the tab was suspended, or
\* the ad prompt was left open).
ClockTick ==
    /\ fn.op = "clock"
    /\ fn.ticks < MaxTicks
    /\ \E gap \in {FrameMs, StallMs} :
         fn' = [fn EXCEPT !.now = @ + gap, !.ticks = @ + 1]
    /\ UNCHANGED sessionVars

\* The loop callback of a frame.
ClockFrame ==
    /\ fn.op = "clock" /\ fn.running
    /\ \E lag \in {0, FrameLag} :
         LET t == fn.now - lag IN
         /\ t >= fn.t
         /\ fn' = [fn EXCEPT !.t = t, !.last = t,
                             !.dt = FrameDt(game, fn.last, t),
                             !.framed = TRUE, !.first = ~fn.sinceResume,
                             !.sinceResume = TRUE]
    /\ UNCHANGED sessionVars

\* The loop is stopped on entering AdPrompt.
ClockPause ==
    /\ fn.op = "clock" /\ fn.running
    /\ fn' = [fn EXCEPT !.running = FALSE, !.last = PauseLast(game, @),
                        !.framed = FALSE, !.paused = TRUE]
    /\ UNCHANGED sessionVars

\* The loop is started: startGame, or watchAdAndContinue after a pause.
ClockResume ==
    /\ fn.op = "clock" /\ ~fn.running
    /\ fn' = [fn EXCEPT !.running = TRUE,
                        !.last = ResumeLast(game, @, fn.now),
                        !.resumedAt = fn.now, !.sinceResume = FALSE,
                        !.framed = FALSE]
    /\ UNCHANGED sessionVars

-----------------------------------------------------------------------------
(* OrbitDefense.update, the collisions of bullets and asteroids.  fn holds *)
(* the two snapshots bulletsList and astList (in id order, positions in    *)
(* whole pixels), the ids left in bulletsRef and asteroidsRef, scoreRef,   *)
(* and of the pass the pairs it has tested and the hits it has reported.   *)

\* spawnAsteroid: the hit points of an asteroid of the radius.
OD_hp(radius) == Max(1, (radius + OD_HP_UNIT - 1) \div OD_HP_UNIT)

\* The test of the pass on asteroid a and bullet b.
OD_touchesInside(a, b) ==
    LET dx == a.x - b.x
        dy == a.y - b.y
        rr == a.radius + b.radius
    IN dx * dx + dy * dy < rr * rr
OD_touches(a, b) ==
    LET dx == a.x - b.x
        dy == a.y - b.y
        rr == a.radius + b.radius
    IN dx * dx + dy * dy <= rr * rr

\* The body of `if (dx * dx + dy * dy <= rr * rr)`: bullet bi hits the
\* asteroid ai of the snapshot, which may have left asteroidsRef already.
OD_hitAsteroid(st, bi, ai) ==
    LET hp == st.asteroids[ai].hp - 1
        rad == st.asteroids[ai].radius
    IN [st EXCEPT !.liveB = @ \ {bi},
                  !.asteroids[ai].hp = hp,
                  !.hits = @ \cup {<< bi, ai >>},
                  !.liveA = IF hp <= 0 THEN @ \ {ai} ELSE @,
                  !.score = @ + OD_HIT_SCORE
                              + (IF hp <= 0
                                 THEN rad * OD_KILL_FACTOR + OD_KILL_BONUS
                                 ELSE 0)]

\* `for (const a of astList)` from asteroid ai on, for bullet bi: the loop
\* breaks at the first hit.
RECURSIVE OD_scanAsteroids(_, _, _)
OD_scanAsteroids(st, bi, ai) ==
    IF ai > Len(st.asteroids) THEN st
    ELSE LET seen == [st EXCEPT !.tested = @ \cup {<< bi, ai >>}] IN
         IF OD_touches(st.asteroids[ai], st.bullets[bi])
         THEN OD_hitAsteroid(seen, bi, ai)
         ELSE OD_scanAsteroids(seen, bi, ai + 1)

\* `for (const b of bulletsList)` from bullet bi on.
RECURSIVE OD_scanBullets(_, _)
OD_scanBullets(st, bi) ==
    IF bi > Len(st.bullets) THEN st
    ELSE OD_scanBullets(OD_scanAsteroids(st, bi, 1), bi + 1)

\* The collision pass of one update.
OD_collide ==
    /\ fn.op = "collide" /\ ~fn.done
    /\ fn' = [OD_scanBullets(fn, 1) EXCEPT !.done = TRUE]
    /\ UNCHANGED sessionVars

-----------------------------------------------------------------------------
(* The spawners of GalaxyRunner, OrbitDefense and GalaxyBlaster: the spawn *)
(* interval a frame compares the spawn timer with, in microseconds (the    *)
(* quotient of GalaxyBlaster is rounded down to one).  fn holds the clock  *)
(* timeLeftRef, scoreRef, spawnIntervalRef, and the intervals the last two *)
(* frames have used.                                                       *)

\* update of GalaxyRunner: `interval`.
GR_interval(timeLeft) ==
    1000 * Max(GR_MIN_INTERVAL_MS, 1000 - (GR_START_TIME - timeLeft) * 14)

\* update of OrbitDefense: spawnIntervalRef after a spawn.
OD_interval(score) ==
    1000 * Max(OD_MIN_INTERVAL_MS,
               OD_BASE_ASTEROID_SPAWN_MS - Min(420, score \div 30))

\* updateGame of GalaxyBlaster: `interval`, with
\* difficulty = 1 + min(2, score/900 + (START_TIME - timeLeft)/START_TIME)
\* as a number of 2700ths.
GB_difficulty(score, timeLeft) ==
    2700 + Min(5400, 3 * score + 90 * (GB_START_TIME - timeLeft))
GB_interval(score, timeLeft) ==
    Max(1000 * GB_MIN_INTERVAL_MS,
        (1000 * GB_BASE_SPAWN_INTERVAL_MS * 2700) \div GB_difficulty(score, timeLeft))

\* The points of a hit: an enemy of GalaxyBlaster at multiplier 1
\* (small, big), a bullet of OrbitDefense (hit, hit that destroys).
SpawnPoints(g) ==
    CASE g = "GalaxyBlaster" -> {36, 252}
      [] g = "OrbitDefense" ->
           {OD_HIT_SCORE,
            OD_HIT_SCORE + SmallRadius * OD_KILL_FACTOR + OD_KILL_BONUS}
      [] OTHER -> {}

\* The interval the frame compares the spawn timer with.
SpawnUsed(g, st) ==
    CASE g = "GalaxyRunner" -> GR_interval(st.timeLeft)
      [] g = "GalaxyBlaster" -> GB_interval(st.score, st.timeLeft)
      [] g = "OrbitDefense" -> st.interval

\* A frame of the loop while playing, in which the spawn timer has run out.
SpawnFrame ==
    /\ fn.op = "spawn" /\ fn.state = "playing"
    /\ fn' = [fn EXCEPT !.prevUsed = fn.used,
                        !.used = SpawnUsed(game, fn),
                        !.interval = IF game = "OrbitDefense"
                                     THEN OD_interval(fn.score)
                                     ELSE SpawnUsed(game, fn)]
    /\ UNCHANGED sessionVars

\* A hit that scores.
SpawnHit ==
    /\ fn.op = "spawn" /\ fn.state = "playing"
    /\ fn.hits < MaxHits
    /\ \E pts \in SpawnPoints(game) :
         fn' = [fn EXCEPT !.score = @ + pts, !.hits = @ + 1]
    /\ UNCHANGED sessionVars

\* The callback of the one-second interval: at 0 GalaxyRunner is won, the
\* others open the ad prompt.
SpawnTick ==
    LET nt == Max(0, fn.timeLeft - 1) IN
    /\ fn.op = "spawn" /\ fn.state = "playing"
    /\ fn' = [fn EXCEPT !.timeLeft = nt,
                        !.state = IF nt > 0 THEN @
                                  ELSE IF game = "GalaxyRunner" THEN "win"
                                  ELSE "ad"]
    /\ UNCHANGED sessionVars

\* GalaxyRunner is out of hearts: showAdModalForHearts.
SpawnOutOfHearts ==
    /\ fn.op = "spawn" /\ fn.state = "playing"
    /\ game = "GalaxyRunner"
    /\ fn' = [fn EXCEPT !.state = "ad"]
    /\ UNCHANGED sessionVars

\* watchAdAndContinue: GalaxyRunner restores the hearts, the others add
\* AD_CONTINUE_SECONDS to the clock.
SpawnAdContinue ==
    /\ fn.op = "spawn" /\ fn.state = "ad"
    /\ fn.ads < MaxAds
    /\ fn' = [fn EXCEPT !.state = "playing", !.ads = @ + 1,
                        !.timeLeft =
                            CASE game = "GalaxyBlaster" -> @ + GB_AD_CONTINUE_SECONDS
                              [] game = "OrbitDefense" -> @ + OD_AD_CONTINUE_SECONDS
                              [] OTHER -> @]
    /\ UNCHANGED sessionVars

-----------------------------------------------------------------------------
(* GalaxyRunner, the player's physics.  fn holds size.h, playerYRef in     *)
(* 1e-7 px, playerVyRef in 1e-4 px/s, groundedRef, and of the last update  *)
(* whether its top clamp was applied; dt is in ms, so that                 *)
(* vy += gravity * dt and y += vy * dt are exact.                          *)

\* Math.round of n/100.
RoundHundredths(n) == (n + 50) \div 100

\* groundY - 12 and minPlayerPy of update, in px.
GR_groundY(h) == h - Max(28, RoundHundredths(18 * h))
GR_minPlayerPy(h) ==
    Max(6, RoundHundredths(82 * RoundHundredths(18 * h) + 600))

\* The top clamp of update.
GR_topClampKeepsVy(vy) == vy
GR_topClamp(vy) == IF vy < 0 THEN 0 ELSE vy

\* update(dt) while the ref says playing, up to the ground clamp.
GR_update(dt) ==
    LET vy1 == fn.vy + 26 * fn.h * dt
        y1 == fn.y + vy1 * dt
        minPy == GR_minPlayerPy(fn.h) * 10000000
        top == y1 < minPy
        y2 == IF top THEN minPy ELSE y1
        vy2 == IF top THEN GR_topClamp(vy1) ELSE vy1
        ground == (GR_groundY(fn.h) - 12) * 10000000
        landed == y2 >= ground
    IN
    /\ fn.op = "run"
    /\ fn.updates < MaxUpdates
    /\ fn' = [fn EXCEPT !.y = IF landed THEN ground ELSE y2,
                        !.vy = IF landed THEN 0 ELSE vy2,
                        !.grounded = landed,
                        !.clampedTop = top,
                        !.updates = @ + 1]
    /\ UNCHANGED sessionVars

\* A frame: the first one after startLoop can have a negative dt, the
\* others take a frame interval or the maximum step.
GR_updateFrame ==
    \E dt \in {FrameMs, GR_MAX_DT_MS} \cup (IF fn.updates = 0 THEN {-FrameLag} ELSE {}) :
        GR_update(dt)

\* doJump: a jump from the ground, or a boost in the air.
GR_doJump ==
    /\ fn.op = "run"
    /\ fn' = [fn EXCEPT
                !.vy = IF fn.grounded THEN -Max(2200000, 10500 * fn.h)
                       ELSE IF @ > -16000 * fn.h THEN @ - 3500 * fn.h ELSE @,
                !.grounded = FALSE,
                !.clampedTop = FALSE]
    /\ UNCHANGED sessionVars

-----------------------------------------------------------------------------
(* GalaxyBlaster, combo and multiplier.  fn holds the states combo and     *)
(* multiplier (in hundredths), and of the last tap its kind, the           *)
(* scoreValue of the enemy hit, the multiplier the handler saw, and the    *)
(* points it added to scoreRef.                                            *)

\* spawnEnemy: scoreValue = Math.round(baseValue * REWARD_FACTOR) of a
\* small, a medium and a big enemy.
GB_scoreValues == { RoundHundredths(b * 60) : b \in {60, 160, 420} }

\* newMult of the setCombo updater, in hundredths.
GB_newMultUncapped(nc) == 100 + 18 * (nc \div GB_COMBO_STEP)
GB_newMult(nc) == 100 + Min(GB_MULT_CAP, 18 * (nc \div GB_COMBO_STEP))

\* handleHitEnemy: Math.round(base * multiplier), then the combo grows.
GB_handleHitEnemy ==
    /\ fn.op = "combo"
    /\ fn.combo < MaxCombo
    /\ \E base \in GB_scoreValues :
         fn' = [fn EXCEPT !.last = "hit", !.base = base,
                          !.multAtTap = fn.multiplier,
                          !.added = RoundHundredths(base * fn.multiplier),
                          !.combo = @ + 1,
                          !.multiplier = GB_newMult(fn.combo + 1)]
    /\ UNCHANGED sessionVars

\* handleMiss.
GB_handleMiss ==
    /\ fn.op = "combo"
    /\ fn' = [fn EXCEPT !.last = "miss", !.base = 0, !.added = 0,
                        !.multAtTap = fn.multiplier,
                        !.combo = 0, !.multiplier = 100]
    /\ UNCHANGED sessionVars

-----------------------------------------------------------------------------
(* SlidePuzzle: the tile buttons and the arrow keys *)

SP_row(i) == i \div SP_COLS
SP_col(i) == i % SP_COLS

\* board.findIndex(v => v === v0), -1 when there is none.
SP_findIndex(board, v0) ==
    IF \E i \in DOMAIN board : board[i] = v0
    THEN CHOOSE i \in DOMAIN board :
           board[i] = v0 /\ \A j \in DOMAIN board : board[j] = v0 => i <= j
    ELSE -1

\* The distance of two indices in the flat array: it takes the last cell of
\* a row and the first of the next for neighbours.
SP_manhattanFlat(a, b) == IF Abs(a - b) = SP_COLS THEN 1 ELSE Abs(a - b)

\* manhattan of swapTiles.
SP_manhattan(a, b) == Abs(SP_row(a) - SP_row(b)) + Abs(SP_col(a) - SP_col(b))

\* swapTiles with its setBoard updater.
swapTiles(board, tileIdx, blankIdx) ==
    IF SP_manhattan(tileIdx, blankIdx) # 1 THEN board
    ELSE [board EXCEPT ![tileIdx] = board[blankIdx], ![blankIdx] = board[tileIdx]]

\* isSolved of the render.
SP_isSolved(board) == SP_solved(board)

\* The render after an input: the effect on [isSolved, gameState] locks a
\* solved board.
SP_afterInput(st, board) ==
    [st EXCEPT !.board = board, !.moves = @ + 1,
               !.state = IF st.state = "playing" /\ SP_isSolved(board)
                         THEN "locked" ELSE @]

\* The onClick of the button of tile correctIndex.
SP_onTileClick ==
    /\ fn.op = "slide"
    /\ fn.moves < MaxMoves
    /\ \E correctIndex \in 0 .. SP_TOTAL - 2 :
         LET b == SP_findIndex(fn.board, null)
             tilePos == SP_findIndex(fn.board, correctIndex)
         IN fn' = IF fn.state # "playing" \/ b < 0 \/ tilePos = -1
                  THEN SP_afterInput(fn, fn.board)
                  ELSE SP_afterInput(fn, swapTiles(fn.board, tilePos, b))
    /\ UNCHANGED sessionVars

\* The target of the keydown handler for a key, -1 when it has none.
SP_keyTarget(key, b) ==
    CASE key = "ArrowUp" -> IF SP_row(b) < SP_ROWS - 1 THEN b + SP_COLS ELSE -1
      [] key = "ArrowDown" -> IF SP_row(b) > 0 THEN b - SP_COLS ELSE -1
      [] key = "ArrowLeft" -> IF SP_col(b) < SP_COLS - 1 THEN b + 1 ELSE -1
      [] key = "ArrowRight" -> IF SP_col(b) > 0 THEN b - 1 ELSE -1
      [] OTHER -> -1

\* onKey of the keydown effect.
SP_onKey ==
    /\ fn.op = "slide"
    /\ fn.moves < MaxMoves
    /\ \E key \in {"ArrowUp", "ArrowDown", "ArrowLeft", "ArrowRight", "Enter"} :
         LET b == SP_findIndex(fn.board, null)
             target == IF b < 0 THEN -1 ELSE SP_keyTarget(key, b)
         IN fn' = IF fn.state # "playing" \/ target < 0
                  THEN SP_afterInput(fn, fn.board)
                  ELSE SP_afterInput(fn, swapTiles(fn.board, target, b))
    /\ UNCHANGED sessionVars

-----------------------------------------------------------------------------
(* ConnectFlowGrid: drawing a path with the pointer *)

\* pairs.find(p => cellEq(p.a, cell) || cellEq(p.b, cell)): its index, 0
\* when there is none.
CF_findByEndpoint(pairs, cell) ==
    IF \E k \in DOMAIN pairs : pairs[k].a = cell \/ pairs[k].b = cell
    THEN CHOOSE k \in DOMAIN pairs :
           /\ pairs[k].a = cell \/ pairs[k].b = cell
           /\ \A j \in DOMAIN pairs :
                (pairs[j].a = cell \/ pairs[j].b = cell) => k <= j
    ELSE 0

\* pairs.find(p => p.id === id): its index, 0 when there is none.
CF_findById(pairs, id) ==
    IF \E k \in DOMAIN pairs : pairs[k].id = id
    THEN CHOOSE k \in DOMAIN pairs :
           pairs[k].id = id /\ \A j \in DOMAIN pairs : pairs[j].id = id => k <= j
    ELSE 0

\* setTempPath(null), tempPathRef.current = null, activePairRef.current = null
CF_clearTemp(st) == [st EXCEPT !.tempPath = << >>, !.activePair = null]

\* onPointerDown on cell (NoCell outside the board).
CF_onPointerDown ==
    /\ fn.op = "draw"
    /\ \E cell \in Cells(GridSize) \cup {NoCell} :
         LET hit == CF_findByEndpoint(fn.pairs, cell) IN
         fn' = IF fn.state # "playing" \/ cell = NoCell THEN fn
               ELSE IF hit = 0 \/ fn.pairs[hit].connected THEN CF_clearTemp(fn)
               ELSE [fn EXCEPT !.activePair = fn.pairs[hit].id,
                               !.tempPath = << cell >>]
    /\ UNCHANGED sessionVars

\* The step onto a cell of another pair's path is refused.
CF_blocked(st, cell) ==
    LET pt == CF_findById(st.pairs, st.activePair)
        isOwnEndpoint == pt # 0 /\ (st.pairs[pt].a = cell \/ st.pairs[pt].b = cell)
    IN /\ st.occupiedMap[cell] # null
       /\ st.occupiedMap[cell] # st.activePair
       /\ ~isOwnEndpoint

\* commitTempPathAsPair(pairId, pathCells): the pair is connected by the
\* path, its cells are entered in occupiedMap and the win check is armed.
commitTempPathAsPair(st, pairId, pathCells) ==
    LET k == CF_findById(st.pairs, pairId) IN
    IF k = 0 THEN st
    ELSE IF st.pairs[k].a \notin Range(pathCells) \/ st.pairs[k].b \notin Range(pathCells)
    THEN CF_clearTemp(st)
    ELSE [CF_clearTemp(st) EXCEPT
            !.pairs[k].connected = TRUE,
            !.pairs[k].path = pathCells,
            !.occupiedMap = [cc \in DOMAIN @ |->
                               IF cc \in Range(pathCells) THEN pairId ELSE @[cc]],
            !.check = TRUE]

\* onPointerMove over cell.
CF_onPointerMove ==
    /\ fn.op = "draw"
    /\ \E cell \in Cells(GridSize) \cup {NoCell} :
         LET n == Len(fn.tempPath)
             np == Append(fn.tempPath, cell)
             pt == CF_findById(fn.pairs, fn.activePair)
         IN
         /\ n < MaxPath
         /\ fn' =
              IF fn.state # "playing" THEN fn
              ELSE IF n = 0 \/ fn.activePair = null THEN fn
              ELSE IF cell = NoCell THEN fn
              ELSE IF fn.tempPath[n] = cell THEN fn
              ELSE IF n >= 2 /\ fn.tempPath[n - 1] = cell
                   THEN [fn EXCEPT !.tempPath = SubSeq(@, 1, n - 1)]
              ELSE IF Distance(fn.tempPath[n], cell) # 1 THEN fn
              ELSE IF CF_blocked(fn, cell) THEN fn
              ELSE IF pt # 0 /\ (fn.pairs[pt].a = cell \/ fn.pairs[pt].b = cell)
                   THEN commitTempPathAsPair([fn EXCEPT !.tempPath = np],
                                             fn.activePair, np)
              ELSE [fn EXCEPT !.tempPath = np]
    /\ UNCHANGED sessionVars

\* onPointerUp and onPointerCancel.
CF_onPointerUp ==
    /\ fn.op = "draw"
    /\ fn' = IF fn.state # "playing" THEN fn ELSE CF_clearTemp(fn)
    /\ UNCHANGED sessionVars

\* The win check of a commit, 80 ms later.
CF_drawnCheck ==
    /\ fn.op = "draw"
    /\ fn.check
    /\ fn' = [fn EXCEPT !.check = FALSE,
                        !.state = IF \A k \in DOMAIN fn.pairs : fn.pairs[k].connected
                                  THEN "win" ELSE @]
    /\ UNCHANGED sessionVars

-----------------------------------------------------------------------------
(* MemoryGame: handleFlip and its two timeouts *)

MG_showFace(card) == card.flipped \/ card.matched

\* flippedIndexes.length === 2, were a third index awaited.
MG_twoFlippedOffByOne(idxs) == Len(idxs) = 3

\* flippedIndexes.length === 2, of the deck updater and of the button.
MG_twoFlipped(idxs) == Len(idxs) = 2

\* disabled of the button of card idx.
MG_disabled(st, idx) ==
    \/ st.state # "playing"
    \/ MG_showFace(st.deck[idx])
    \/ MG_twoFlipped(st.idxs)
    \/ st.lockFlip

\* handleFlip(index) with its setDeck and setFlippedIndexes updaters; the
\* second index arms the comparison.
handleFlip(st, index) ==
    IF st.state # "playing" \/ st.lockFlip \/ ~st.sinceFlip THEN st
    ELSE LET card == st.deck[index]
             nextIdxs == Append(st.idxs, index)
         IN [st EXCEPT
               !.sinceFlip = FALSE,
               !.deck = IF card.flipped \/ card.matched \/ MG_twoFlipped(st.idxs)
                        THEN @ ELSE [@ EXCEPT ![index].flipped = TRUE],
               !.idxs = nextIdxs,
               !.timeouts = IF Len(nextIdxs) = 2
                            THEN @ \cup {[kind |-> "compare", a |-> nextIdxs[1],
                                          b |-> nextIdxs[2]]}
                            ELSE @]

\* A click on a card whose button is enabled.
MG_cardClick ==
    /\ fn.op = "flip"
    /\ fn.taps < MaxTaps
    /\ \E idx \in DOMAIN fn.deck :
         /\ ~MG_disabled(fn, idx)
         /\ fn' = [handleFlip(fn, idx) EXCEPT !.taps = @ + 1]
    /\ UNCHANGED sessionVars

\* FLIP_LOCK_DELAY has passed since lastFlipRef.
MG_flipLockElapsed ==
    /\ fn.op = "flip"
    /\ ~fn.sinceFlip
    /\ fn' = [fn EXCEPT !.sinceFlip = TRUE]
    /\ UNCHANGED sessionVars

\* The win detection effect of the render.
MG_winDetected(st) ==
    IF st.state = "playing" /\ \A i \in DOMAIN st.deck : st.deck[i].matched
    THEN [st EXCEPT !.state = "win"] ELSE st

\* The comparison, 20 ms after the second flip or later.
MG_compare ==
    /\ fn.op = "flip"
    /\ \E t \in fn.timeouts :
         /\ t.kind = "compare"
         /\ LET rest == [fn EXCEPT !.timeouts = @ \ {t}] IN
            fn' = IF fn.deck[t.a].key = fn.deck[t.b].key
                  THEN MG_winDetected(
                         [rest EXCEPT
                            !.deck = [@ EXCEPT ![t.a].matched = TRUE,
                                               ![t.a].flipped = TRUE,
                                               ![t.b].matched = TRUE,
                                               ![t.b].flipped = TRUE],
                            !.idxs = << >>])
                  ELSE [rest EXCEPT
                          !.lockFlip = TRUE,
                          !.timeouts = @ \cup {[kind |-> "flipBack", a |-> t.a,
                                                b |-> t.b]}]
    /\ UNCHANGED sessionVars

\* The flip-back of a mismatch, FLIP_BACK_DELAY after the comparison.
MG_flipBack ==
    /\ fn.op = "flip"
    /\ \E t \in fn.timeouts :
         /\ t.kind = "flipBack"
         /\ LET n == fn.hearts - 1 IN
            fn' = [fn EXCEPT
                     !.timeouts = @ \ {t},
                     !.deck = [i \in DOMAIN @ |->
                                 IF i \in {t.a, t.b} /\ ~@[i].matched
                                 THEN [@[i] EXCEPT !.flipped = FALSE] ELSE @[i]],
                     !.idxs = << >>,
                     !.lockFlip = FALSE,
                     !.hearts = IF n <= 0 THEN 0 ELSE n,
                     !.state = IF n <= 0 THEN "ad" ELSE @]
    /\ UNCHANGED sessionVars

\* watchAdAndContinue of the ad overlay.
MG_adContinue ==
    /\ fn.op = "flip"
    /\ fn.state = "ad"
    /\ fn' = MG_winDetected([fn EXCEPT !.hearts = Max(1, @ + 1),
                                       !.state = "playing"])
    /\ UNCHANGED sessionVars

-----------------------------------------------------------------------------
(* The Rewards page: the onValue listener with checkDailyStreak, watchAd   *)
(* and exchangeDiamonds, on the pages of one user.  fn holds users/{uid}   *)
(* as the server has it (rec; diamonds in tenths), and of every open page  *)
(* its userData state, the writes it has sent that the server has not yet  *)
(* applied (in the order sent), and a watchAd call awaiting its reset;    *)
(* and as history the record at the start, the diamonds the ad            *)
(* transactions have added (gains), the number of streak updates applied   *)
(* (bonuses), and whether the first watchAd call of a day that began in    *)
(* the behaviour was refused.  The day is the variable today.              *)

RW_Pages == {1, 2}

\* Math.round((0.5 + level / 25) * 2) / 2, in tenths of a diamond.
RW_adDiamonds(level) == 5 * ((75 + 4 * level) \div 50)

\* (exchangeAmount / 10) * 50, the amount in tenths of a diamond.
creditsEarned(amount) == (amount * CREDITS_PER_TEN) \div 100

\* What a write does to the record.  The update of checkDailyStreak and the
\* reset of watchAd set the fields they name; the transactions of watchAd
\* and exchangeDiamonds compute theirs from the record they are applied to.
RW_apply(rec, o) ==
    CASE o.kind = "streak" ->
           [rec EXCEPT !.streak = o.streak, !.lastLogin = o.date,
                       !.diamonds = o.amount, !.adCountToday = 0,
                       !.adCountResetDate = o.date]
      [] o.kind = "reset" ->
           [rec EXCEPT !.adCountToday = 0, !.adCountResetDate = o.date]
      [] o.kind = "ad" ->
           [rec EXCEPT !.diamonds = @ + o.amount, !.adCountToday = @ + 1,
                       !.adCountResetDate = o.date]
      [] o.kind = "exchange" ->
           [rec EXCEPT !.diamonds = @ - o.amount,
                       !.credits = @ + creditsEarned(o.amount)]

\* The record as a page's client has it: the server's, with the writes the
\* page has sent and the server has not yet applied.
RECURSIVE RW_view(_, _)
RW_view(rec, q) ==
    IF q = << >> THEN rec ELSE RW_view(RW_apply(rec, Head(q)), Tail(q))

RW_op(kind, date, streak, amount) ==
    [kind |-> kind, date |-> date, streak |-> streak, amount |-> amount]

\* checkDailyStreak(data): the writes it sends.
checkDailyStreak(data) ==
    IF StreakWrites("checkDailyStreak", data.lastLogin)
    THEN << RW_op("streak", today, newStreak("checkDailyStreak", data),
                  data.diamonds + diamondsEarned("checkDailyStreak", data)) >>
    ELSE << >>

\* The onValue callback of page p with the value data: setUserData(data)
\* and checkDailyStreak(data).  A write the page sends is applied to the
\* page's own copy at once and the callback runs again with the result,
\* which has today's lastLogin.
RW_deliver(f, p, data) ==
    LET sent == checkDailyStreak(data)
    IN [f EXCEPT !.loaded[p] = TRUE,
                 !.queue[p] = @ \o sent,
                 !.userData[p] = IF sent = << >> THEN data
                                 ELSE RW_apply(data, sent[1])]

\* Page p sends the write o: it is applied to the page's copy of the
\* record, and the listener of the page is called with the result.
RW_send(f, p, o) ==
    RW_deliver([f EXCEPT !.queue[p] = Append(@, o)], p,
               RW_apply(f.userData[p], o))

\* A value from the server reaches page p: the first one after the page is
\* mounted, or one that differs from what the page has.
RW_onValue(p) ==
    /\ fn.op = "rewards"
    /\ user
    /\ LET data == RW_view(fn.rec, fn.queue[p])
       IN /\ ~fn.loaded[p] \/ fn.userData[p] # data
          /\ fn' = RW_deliver(fn, p, data)
    /\ UNCHANGED sessionVars

\* `if (userData.adCountToday >= 20)` and what follows it in watchAd, with
\* the userData and the today of the call: the writes the call sends.
RW_adLimitReached(userData) == userData.adCountToday >= AD_LIMIT

RW_adTransaction(f, p, userData, date) ==
    IF RW_adLimitReached(userData) THEN f
    ELSE RW_send(f, p, RW_op("ad", date, 0, RW_adDiamonds(userData.level)))

\* watchAd of page p, to its first await: on a new day the reset is sent
\* and awaited; otherwise the limit is checked and the transaction sent.
watchAd(p) ==
    /\ fn.op = "rewards"
    /\ user /\ fn.loaded[p] /\ ~fn.awaiting[p]
    /\ fn.clicks < MaxClicks
    /\ LET userData == fn.userData[p]
           resetDate == IF userData.adCountResetDate = null THEN today
                        ELSE userData.adCountResetDate
           first == fn.dayBegun /\ fn.adCallsToday = 0
           called == [fn EXCEPT !.clicks = @ + 1, !.adCallsToday = @ + 1]
       IN fn' = IF resetDate # today
                THEN RW_send([called EXCEPT !.awaiting[p] = TRUE,
                                            !.adCall[p] = [userData |-> userData,
                                                           today |-> today,
                                                           first |-> first]],
                             p, RW_op("reset", today, 0, 0))
                ELSE RW_adTransaction(
                         [called EXCEPT !.firstRefused =
                                          @ \/ (first /\ RW_adLimitReached(userData))],
                         p, userData, today)
    /\ UNCHANGED sessionVars

\* The rest of a watchAd call that awaited its reset, once the server has
\* applied it.
RW_watchAdResume(p) ==
    /\ fn.op = "rewards"
    /\ fn.awaiting[p]
    /\ \A i \in DOMAIN fn.queue[p] : fn.queue[p][i].kind # "reset"
    /\ LET call == fn.adCall[p]
       IN fn' = RW_adTransaction(
                    [fn EXCEPT !.awaiting[p] = FALSE,
                               !.firstRefused =
                                 @ \/ (call.first /\ RW_adLimitReached(call.userData))],
                    p, call.userData, call.today)
    /\ UNCHANGED sessionVars

\* exchangeDiamonds of page p with exchangeType 'credits': refused when the
\* amount is more than the diamonds of userData, else the transaction is
\* sent.
RW_notEnough(userData, amount) == amount > userData.diamonds

exchangeDiamonds(p) ==
    /\ fn.op = "rewards"
    /\ user /\ fn.loaded[p]
    /\ fn.clicks < MaxClicks
    /\ LET amount == EXCHANGE_AMOUNT
           called == [fn EXCEPT !.clicks = @ + 1]
       IN fn' = IF RW_notEnough(fn.userData[p], amount) THEN called
                ELSE RW_send(called, p, RW_op("exchange", today, 0, amount))
    /\ UNCHANGED sessionVars

\* The server applies the oldest write of page p.
RW_land(p) ==
    /\ fn.op = "rewards"
    /\ fn.queue[p] # << >>
    /\ LET o == Head(fn.queue[p])
       IN fn' = [fn EXCEPT !.rec = RW_apply(@, o),
                           !.queue[p] = Tail(@),
                           !.gains = IF o.kind = "ad" THEN @ + o.amount ELSE @,
                           !.bonuses = IF o.kind = "streak" THEN @ + 1 ELSE @]
    /\ UNCHANGED sessionVars

\* Midnight UTC.
RW_newDay ==
    /\ fn.op = "rewards"
    /\ today < MaxDate
    /\ today' = today + 1
    /\ fn' = [fn EXCEPT !.dayBegun = TRUE, !.adCallsToday = 0]
    /\ UNCHANGED << game, user, store, store0, calls, awardCalls, committed,
                    ads, toast, c >>

-----------------------------------------------------------------------------
(* The Dashboard: handlePredict on the sessions of one user.  fn holds     *)
(* users/{uid}/credits as the server has it, and of every session its      *)
(* credits state (shown), isPredicting, and how far its handlePredict call  *)
(* is: "tx" with the transaction sent, "timeout" with the 3-second timeout  *)
(* pending, and whether the transaction took the credits; and as history   *)
(* the predictions saved (saved) and those of them saved by a call whose    *)
(* transaction took nothing (free).                                         *)

DB_Sessions == {1, 2}

\* The update function of the transaction: `if (value < 50) return value;
\* return value - 50`.
DB_deduct(value) == IF value < PREDICT_COST THEN value ELSE value - PREDICT_COST

\* `if (credits < 50)`: the call returns with the toast.
DB_insufficient(credits) == credits < PREDICT_COST

\* The credits as a session's client has them: the server's, with the
\* session's transaction while the server has not yet applied it.
DB_view(s) ==
    IF fn.phase[s] = "tx" THEN DB_deduct(fn.credits) ELSE fn.credits

\* The onValue callback of the credits listener of session s:
\* setCredits(v).
DB_onValue(s) ==
    /\ fn.op = "predict"
    /\ fn.shown[s] # DB_view(s)
    /\ fn' = [fn EXCEPT !.shown[s] = DB_view(s)]
    /\ UNCHANGED sessionVars

\* handlePredict of session s, to its await: the button is disabled while
\* isPredicting; the call returns when the credits shown are less than 50,
\* else the transaction is sent and applied to the session's own copy.
handlePredict(s) ==
    /\ fn.op = "predict"
    /\ user
    /\ ~fn.isPredicting[s]
    /\ fn.predicts < MaxPredicts
    /\ fn' = IF DB_insufficient(fn.shown[s])
             THEN [fn EXCEPT !.predicts = @ + 1]
             ELSE [fn EXCEPT !.predicts = @ + 1,
                             !.isPredicting[s] = TRUE,
                             !.phase[s] = "tx",
                             !.shown[s] = DB_deduct(@)]
    /\ UNCHANGED sessionVars

\* The server applies the transaction of session s and the call goes on:
\* the toast, and setTimeout(..., 3000).
DB_commit(s) ==
    /\ fn.op = "predict"
    /\ fn.phase[s] = "tx"
    /\ fn' = [fn EXCEPT !.credits = DB_deduct(@),
                        !.deducted[s] = DB_deduct(fn.credits) # fn.credits,
                        !.phase[s] = "timeout"]
    /\ UNCHANGED sessionVars

\* runTransaction rejects: the catch block.
DB_reject(s) ==
    /\ fn.op = "predict"
    /\ fn.phase[s] = "tx"
    /\ fn' = [fn EXCEPT !.phase[s] = "idle", !.isPredicting[s] = FALSE]
    /\ UNCHANGED sessionVars

\* The timeout of session s: generatePrediction(), which returns null
\* without market data, and savePredictionToHistory, which returns no id
\* when the write fails.
DB_timeout(s) ==
    /\ fn.op = "predict"
    /\ fn.phase[s] = "timeout"
    /\ \E predictionResult \in BOOLEAN : \E id \in BOOLEAN :
         LET saved == predictionResult /\ id
         IN fn' = [fn EXCEPT !.phase[s] = "idle",
                             !.isPredicting[s] = FALSE,
                             !.saved = IF saved THEN @ + 1 ELSE @,
                             !.free = IF saved /\ ~fn.deducted[s] THEN @ + 1 ELSE @]
    /\ UNCHANGED sessionVars

-----------------------------------------------------------------------------
InitStore ==
    /\ game \in Games
    /\ user \in BOOLEAN
    /\ today = 1
    /\ store \in [ diamonds : {0}, xp : {0}, lastPlayed : {0, 1}, reward : {0} ]
    /\ store0 = store
    /\ calls = 0
    /\ awardCalls = 0
    /\ committed = FALSE
    /\ ads = 0
    /\ toast = "none"

\* The component as mounted: its useState and useRef initial values.
InitSession ==
    \E routed \in BOOLEAN :
    c = [ gameState |-> "idle",
          hearts |-> HeartsStart(game),
          score |-> 0,
          scoreRef |-> 0,
          timeLeft |-> StartTime(game),
          isAwarded |-> FALSE,
          entities |-> << >>,
          runningRef |-> FALSE,
          rafRef |-> FALSE,
          lastTsRef |-> FALSE,
          spawnRef |-> FALSE,
          loopAwarded |-> FALSE,
          loopTimer |-> FALSE,
          gameStateRef |-> "idle",
          timerRef |-> FALSE,
          invuln |-> FALSE,
          timeouts |-> {},
          lockFlip |-> FALSE,
          board |-> StartBoard(game),
          orphans |-> {},
          solutionRef |-> IF game = "ConnectFlowGrid"
                          THEN CF_generated(routed) ELSE << >>,
          pairs |-> IF game = "ConnectFlowGrid"
                    THEN CF_display(CF_generated(routed)) ELSE << >> ]

\* No generator is being called.
Init == InitStore /\ InitSession /\ fn = [op |-> "none"]

NextAward ==
    \/ AwardInvoke
    \/ AwardCommit
    \/ AwardFail

SpecAward == Init /\ [][NextAward]_vars

Next ==
    \/ \E readOk \in BOOLEAN : CC_startGame(readOk)
    \/ CC_spawnObject
    \/ CC_frame
    \/ CC_loopIdle
    \/ CC_loopComets
    \/ CC_restartGame
    \/ CC_watchAdAndContinue
    \/ CC_playAgain
    \/ \E readOk \in BOOLEAN : GR_startGame(readOk)
    \/ GR_countdown
    \/ GR_frame
    \/ GR_watchAdAndContinue
    \/ GR_endRun
    \/ GR_handlePlayAgain
    \/ \E readOk \in BOOLEAN : GS_startGame(readOk)
    \/ GS_spawnFruit
    \/ GS_updatePhysics
    \/ GS_slice
    \/ GS_sliceRun
    \/ GS_countdown
    \/ GS_countdownRun
    \/ GS_timeUpTimeout
    \/ GS_bombTimeout
    \/ GS_watchAdAndContinue
    \/ GS_resetToIdle
    \/ \E readOk \in BOOLEAN : GB_startGame(readOk)
    \/ GB_hit
    \/ GB_loop
    \/ GB_frame
    \/ GB_ticker
    \/ GB_tickerRun
    \/ GB_watchAdAndContinue
    \/ GB_endRun
    \/ GB_handlePlayAgain
    \/ \E readOk \in BOOLEAN : OD_startGame(readOk)
    \/ OD_hit
    \/ OD_loop
    \/ OD_timer
    \/ OD_timerRun
    \/ OD_watchAdAndContinue
    \/ OD_endRun
    \/ OD_handlePlayAgain
    \/ \E readOk \in BOOLEAN : MG_startGame(readOk)
    \/ MG_previewTimeout
    \/ MG_handleFlip
    \/ MG_compareTimeout
    \/ MG_matchRun
    \/ MG_flipBackTimeout
    \/ MG_watchAdAndContinue
    \/ MG_toIdle
    \/ \E readOk \in BOOLEAN : SP_startGame(readOk)
    \/ SP_previewTimeout
    \/ SP_solve
    \/ SP_revealTimeout
    \/ SP_timer
    \/ SP_timerRun
    \/ SP_timeUpTimeout
    \/ SP_watchAdAndContinue
    \/ SP_resetToIdle
    \/ \E readOk \in BOOLEAN : CG_startGame(readOk)
    \/ CG_onSquareClick
    \/ CG_handlePostMove
    \/ CG_makeBotMove
    \/ \E readOk \in BOOLEAN : M3_startGame(readOk)
    \/ \E readOk \in BOOLEAN : CF_startGame(readOk)
    \/ CF_previewTimeout
    \/ CF_commitTempPathAsPair
    \/ CF_checkTimeout
    \/ CF_timer
    \/ CF_timeUpTimeout
    \/ CF_watchAdAndContinue
    \/ CF_restart
    \/ CF_playAgain
    \/ Exit
    \/ LateTimeout
    \/ AwardCommit
    \/ AwardFail

\* The sessions of a component mounted before the user has played the game
\* today; the Starts after its first commit meet today's ledger entry.
InitFresh == Init /\ store.lastPlayed # today

\* The component of game g as mounted for a signed-in user, where the calls
\* of its generators are followed.
InitMounted(g) == InitStore /\ InitSession /\ game = g /\ user /\ store.lastPlayed # today

\* The calls of shuffleSolvable, one per behaviour.
InitShuffle == InitMounted("SlidePuzzle") /\ SP_shuffleCall

NextShuffle ==
    \/ SP_shuffleAttempt
    \/ SP_shuffleFallback

SpecShuffle == InitShuffle /\ [][NextShuffle]_vars

\* The calls of generateRoutedPairs.
InitRouted ==
    /\ InitMounted("ConnectFlowGrid") /\ c.solutionRef = CF_generated(TRUE)
    /\ CF_generateCall

NextRouted ==
    \/ CF_placePair
    \/ CF_routePairs
    \/ CF_fallback

SpecRouted == InitRouted /\ [][NextRouted]_vars

\* The calls of createBoard.
InitBoard == InitMounted("Match3Game") /\ M3_createCall

NextBoard == M3_fillCell

SpecBoard == InitBoard /\ [][NextBoard]_vars

\* The reward commits of a mini-game and the streak calls on one record.
InitStreak ==
    /\ InitStore /\ InitSession
    /\ \E streak \in 0 .. 1 : \E lastLogin \in {null, today - 1, today} :
         fn = [op |-> "streak", streak |-> streak, lastLogin |-> lastLogin,
               writer |-> "none", data |-> << >>, reads |-> 0, granted |-> 0]

NextStreak ==
    \/ AwardInvoke
    \/ AwardCommit
    \/ AwardFail
    \/ StreakRead
    \/ StreakUpdate

SpecStreak == InitStreak /\ [][NextStreak]_vars

\* The clock of a component mounted at time StartMs.
InitClock ==
    /\ \E g \in {"CometCatch", "GalaxyRunner", "GalaxySlice"} : InitMounted(g)
    /\ fn = [op |-> "clock", now |-> StartMs, ticks |-> 0, running |-> FALSE,
             last |-> null, t |-> 0, dt |-> 0, framed |-> FALSE,
             first |-> FALSE, sinceResume |-> FALSE, resumedAt |-> 0,
             paused |-> FALSE]

NextClock ==
    \/ ClockTick
    \/ ClockFrame
    \/ ClockPause
    \/ ClockResume

SpecClock == InitClock /\ [][NextClock]_vars


\* The asteroids and bullets a collision pass can meet: small asteroids of
\* spawnAsteroid on one row, bullets of fireBullet in one column.
OD_Asteroids ==
    [ x : 0..MaxCoord, y : {MaxCoord - 1}, radius : {SmallRadius},
      hp : {OD_hp(SmallRadius)} ]
OD_Bullets == [ x : {0}, y : {0, MaxCoord - 1}, radius : {OD_BULLET_RADIUS} ]

SeqsUpTo(S, n) == UNION { [1..k -> S] : k \in 1..n }

InitCollide ==
    /\ InitMounted("OrbitDefense")
    /\ \E as \in SeqsUpTo(OD_Asteroids, MaxAsteroids),
          bs \in SeqsUpTo(OD_Bullets, MaxBullets) :
         fn = [op |-> "collide", bullets |-> bs, asteroids |-> as,
               liveB |-> 1..Len(bs), liveA |-> 1..Len(as), score |-> 0,
               tested |-> {}, hits |-> {}, done |-> FALSE]

NextCollide == OD_collide

SpecCollide == InitCollide /\ [][NextCollide]_vars

\* The spawner of a session as started: resetGameState, resetAll.
InitSpawn ==
    /\ \E g \in {"GalaxyRunner", "OrbitDefense", "GalaxyBlaster"} : InitMounted(g)
    /\ fn = [op |-> "spawn", state |-> "playing", timeLeft |-> StartTime(game),
             score |-> 0, hits |-> 0, ads |-> 0,
             interval |-> 1000 * (IF game = "OrbitDefense"
                                  THEN OD_BASE_ASTEROID_SPAWN_MS
                                  ELSE GB_BASE_SPAWN_INTERVAL_MS),
             used |-> null, prevUsed |-> null]

NextSpawn ==
    \/ SpawnFrame
    \/ SpawnHit
    \/ SpawnTick
    \/ SpawnOutOfHearts
    \/ SpawnAdContinue

SpecSpawn == InitSpawn /\ [][NextSpawn]_vars

\* The player as resetGameState leaves it: on the ground, at rest.
InitRun ==
    /\ InitMounted("GalaxyRunner")
    /\ fn = [op |-> "run", h |-> CanvasH,
             y |-> (GR_groundY(CanvasH) - 12) * 10000000, vy |-> 0,
             grounded |-> TRUE, clampedTop |-> FALSE, updates |-> 0]

NextRun ==
    \/ GR_updateFrame
    \/ GR_doJump

SpecRun == InitRun /\ [][NextRun]_vars

\* combo and multiplier as resetGameState leaves them.
InitCombo ==
    /\ InitMounted("GalaxyBlaster")
    /\ fn = [op |-> "combo", combo |-> 0, multiplier |-> 100, last |-> "none",
             base |-> 0, multAtTap |-> 100, added |-> 0]

NextCombo ==
    \/ GB_handleHitEnemy
    \/ GB_handleMiss

SpecCombo == InitCombo /\ [][NextCombo]_vars

\* The sessions of Spec where a preview timeout that is due does fire: a
\* timeout registered with window.setTimeout is run by the browser.
SpecPreview ==
    /\ InitFresh
    /\ [][Next]_vars
    /\ WF_vars(SP_previewTimeout)
    /\ WF_vars(CF_previewTimeout)
    /\ WF_vars(MG_previewTimeout)

\* The inputs of SlidePuzzle.  The session is in any of its states with a
\* board it has there: the solved board with its blank in Idle and Locked,
\* the board completed by the reveal in Win, and in Preview, Playing and
\* AdPrompt a board of shuffleSolvable (the tiles in order around a blank
\* anywhere but in the last cell, or the fallback board).
SP_boardsInPlay ==
    { toArrayWithNull(SP_tiles, p) : p \in 0 .. SP_TOTAL - 2 } \cup {SP_simple}

InitSlide ==
    /\ InitMounted("SlidePuzzle")
    /\ \E state \in {"idle", "preview", "playing", "locked", "ad", "win"} :
       \E board \in SP_boardsInPlay
                      \cup {toArrayWithNull(SP_tiles, SP_MISSING_INDEX),
                            [i \in 0 .. SP_TOTAL - 1 |-> i]} :
         /\ state \in {"idle", "locked"} => SP_solved(board)
         /\ state = "win" <=> board = [i \in 0 .. SP_TOTAL - 1 |-> i]
         /\ state \in {"preview", "playing", "ad"} => board \in SP_boardsInPlay
         /\ fn = [op |-> "slide", state |-> state, board |-> board, moves |-> 0]

NextSlide ==
    \/ SP_onTileClick
    \/ SP_onKey

SpecSlide == InitSlide /\ [][NextSlide]_vars

\* The layouts a session of ConnectFlowGrid is played on: the fallback
\* layout, and a routed one with the pairs in columns of their own.
CF_columnPairs(size, pairCount) ==
    [k \in 1 .. CF_maxPairs(size, pairCount) |->
        [id |-> k - 1, a |-> [x |-> k - 1, y |-> 0],
         b |-> [x |-> k - 1, y |-> size - 1],
         connected |-> FALSE, path |-> << >>]]

\* Playing as startGame and the preview timeout leave it: no pair
\* connected, occupiedMap empty, no path being drawn.
InitDraw ==
    /\ InitMounted("ConnectFlowGrid")
    /\ \E layout \in {CF_fallbackPairs(GridSize, PairCount),
                      CF_columnPairs(GridSize, PairCount)} :
         fn = [op |-> "draw", state |-> "playing", pairs |-> layout,
               occupiedMap |-> [cc \in Cells(GridSize) |-> null],
               tempPath |-> << >>, activePair |-> null, check |-> FALSE]

NextDraw ==
    \/ CF_onPointerDown
    \/ CF_onPointerMove
    \/ CF_onPointerUp
    \/ CF_drawnCheck

SpecDraw == InitDraw /\ [][NextDraw]_vars

\* The decks of buildDeck: each key twice, in any order.
MG_decks ==
    { d \in [1 .. 2 * DeckPairs -> 1 .. DeckPairs] :
        \A k \in 1 .. DeckPairs : Cardinality({ i \in DOMAIN d : d[i] = k }) = 2 }

\* Playing as the preview timeout leaves it: the cards face down, no index
\* flipped, the flips unlocked, lastFlipRef long ago.
InitFlip ==
    /\ InitMounted("MemoryGame")
    /\ \E d \in MG_decks :
         fn = [op |-> "flip", state |-> "playing",
               deck |-> [i \in DOMAIN d |->
                           [key |-> d[i], flipped |-> FALSE, matched |-> FALSE]],
               idxs |-> << >>, lockFlip |-> FALSE, sinceFlip |-> TRUE,
               timeouts |-> {}, hearts |-> HEARTS_START, taps |-> 0]

NextFlip ==
    \/ MG_cardClick
    \/ MG_flipLockElapsed
    \/ MG_compare
    \/ MG_flipBack
    \/ MG_adContinue

SpecFlip == InitFlip /\ [][NextFlip]_vars

\* The Rewards pages as mounted, before their first snapshot, on a record
\* the page can have left: never logged in, or last logged in yesterday or
\* today with the ad count of that day.
RW_records ==
    { [diamonds |-> d, credits |-> 0, level |-> 1, streak |-> 0,
       lastLogin |-> null, adCountToday |-> 0, adCountResetDate |-> null] :
         d \in {0} }
    \cup
    { [diamonds |-> d, credits |-> 0, level |-> 1, streak |-> 1,
       lastLogin |-> l, adCountToday |-> n, adCountResetDate |-> l] :
         d \in {0, EXCHANGE_AMOUNT}, l \in {0, 1}, n \in {0, AD_LIMIT - 1, AD_LIMIT} }

InitRewards ==
    /\ InitStore /\ InitSession
    /\ user /\ game = "CometCatch" /\ store.lastPlayed = 0
    /\ \E rec \in RW_records :
         fn = [op |-> "rewards", rec |-> rec, rec0 |-> rec,
               loaded |-> [p \in RW_Pages |-> FALSE],
               userData |-> [p \in RW_Pages |-> rec],
               queue |-> [p \in RW_Pages |-> << >>],
               awaiting |-> [p \in RW_Pages |-> FALSE],
               adCall |-> [p \in RW_Pages |->
                             [userData |-> rec, today |-> today, first |-> FALSE]],
               clicks |-> 0,
               gains |-> 0, bonuses |-> 0,
               dayBegun |-> FALSE, adCallsToday |-> 0, firstRefused |-> FALSE]

NextRewards ==
    \/ \E p \in RW_Pages : RW_onValue(p)
    \/ \E p \in RW_Pages : watchAd(p)
    \/ \E p \in RW_Pages : RW_watchAdResume(p)
    \/ \E p \in RW_Pages : exchangeDiamonds(p)
    \/ \E p \in RW_Pages : RW_land(p)
    \/ RW_newDay

SpecRewards == InitRewards /\ [][NextRewards]_vars

\* The Dashboard sessions as mounted, before the first value of the credits
\* listener, on credits the exchanges can have left.
InitPredict ==
    /\ InitStore /\ InitSession
    /\ user /\ game = "CometCatch" /\ store.lastPlayed = 0
    /\ \E credits \in {0, PREDICT_COST, 2 * PREDICT_COST, 3 * PREDICT_COST} :
         fn = [op |-> "predict", credits |-> credits, credits0 |-> credits,
               shown |-> [s \in DB_Sessions |-> 0],
               isPredicting |-> [s \in DB_Sessions |-> FALSE],
               phase |-> [s \in DB_Sessions |-> "idle"],
               deducted |-> [s \in DB_Sessions |-> FALSE],
               predicts |-> 0, saved |-> 0, free |-> 0]

NextPredict ==
    \/ \E s \in DB_Sessions : DB_onValue(s)
    \/ \E s \in DB_Sessions : handlePredict(s)
    \/ \E s \in DB_Sessions : DB_commit(s)
    \/ \E s \in DB_Sessions : DB_reject(s)
    \/ \E s \in DB_Sessions : DB_timeout(s)

SpecPredict == InitPredict /\ [][NextPredict]_vars

Spec == InitFresh /\ [][Next]_vars

-----------------------------------------------------------------------------
\* C1: whatever the number and interleaving of awardAndMark commits of one
\* user, game and day, the record holds the initial diamonds and xp plus the
\* reward at most once, and once a commit has succeeded it holds them plus
\* the reward exactly once (not at all if the ledger already carried today)
\* and the ledger entry of the game is {lastPlayed: today, reward: GAME_REWARD}.
C1_AwardOnce ==
    LET due == IF store0.lastPlayed = today THEN 0 ELSE 1
    IN /\ store.diamonds \in { store0.diamonds, store0.diamonds + GameReward(game) }
       /\ store.xp \in { store0.xp, store0.xp + XpReward(game) }
       /\ committed =>
            /\ store.diamonds = store0.diamonds + due * GameReward(game)
            /\ store.xp = store0.xp + due * XpReward(game)
            /\ store.lastPlayed = today
            /\ due = 1 => store.reward = GameReward(game)

\* Three invocations have all committed, two of them interleaved, on a
\* record that had not been rewarded today.
C1_Witness ==
    /\ store0.lastPlayed # today
    /\ awardCalls = MaxInvocations
    /\ calls = 0
    /\ committed
    /\ store.diamonds = store0.diamonds + GameReward(game)

-----------------------------------------------------------------------------
\* C2: between a Start and the next return to Idle awardAndMark is invoked
\* exactly once when the session reaches Win: never more than once, and a
\* session in Win has invoked it.
C2_AwardInvokedOnce ==
    /\ awardCalls <= 1
    /\ c.gameState = "win" => awardCalls = 1

-----------------------------------------------------------------------------
\* startGame of any game, with the outcome of hasPlayedToday's read.
StartGame(readOk) ==
    \/ CC_startGame(readOk) \/ GR_startGame(readOk) \/ GS_startGame(readOk)
    \/ GB_startGame(readOk) \/ OD_startGame(readOk) \/ MG_startGame(readOk)
    \/ SP_startGame(readOk) \/ CG_startGame(readOk)
    \/ M3_startGame(readOk) \/ CF_startGame(readOk)

\* C3: a startGame that finds no signed-in user, or whose daily-limit check
\* reports the game as played today, leaves the session (state, score,
\* hearts, time, board, entities, loop, spawn timer and countdown), the
\* store and the pending commits as they were.
C3_BlockedStartNoOp ==
    [][ \A readOk \in BOOLEAN :
          (StartGame(readOk) /\ Refusal(readOk) # "none")
          => (c' = c /\ UNCHANGED << storeVars, ads >>) ]_vars

\* Play Again was pressed in ChessGame's Win after the reward had been
\* committed: the Start was refused and the session is still in Win.
C3_Witness ==
    /\ game = "ChessGame"
    /\ c.gameState = "win"
    /\ committed /\ calls = 0 /\ awardCalls = 1
    /\ toast = "error"

-----------------------------------------------------------------------------
\* C4: when the commit of a session in Win fails, the session stays in Win,
\* the failure is shown to the player and the record is unchanged.
C4_FailureReported ==
    [][ (AwardFail /\ c.gameState = "win")
        => (c'.gameState = "win" /\ toast' = "error" /\ store' = store) ]_vars

-----------------------------------------------------------------------------
\* C5: in the games with hearts, hearts reach 0 only from Playing and the
\* session is then in AdPrompt; with hearts at 0 the prompt is not entered
\* again, and hearts never go below 0.
C5_AdPromptOnce ==
    [][ (game \in {"CometCatch", "GalaxyRunner", "MemoryGame"}) =>
          ( /\ (c.hearts > 0 /\ c'.hearts = 0)
                 => (c.gameState = "playing" /\ c'.gameState = "ad")
            /\ (c.hearts = 0 /\ c'.gameState = "ad") => c.gameState = "ad"
            /\ c'.hearts >= 0 ) ]_vars

\* The hearts have run out a second time, after an ad-continue.
C5_Witness ==
    /\ game \in {"CometCatch", "GalaxyRunner", "MemoryGame"}
    /\ c.hearts = 0
    /\ c.gameState = "ad"
    /\ ads = MaxAds

-----------------------------------------------------------------------------
\* C6: CometCatch has reached the target while playing: the session is in
\* Win, the frame loop and the spawn interval are stopped and a reward
\* commit has been issued.
C6_WinStopsAndCommits ==
    (game = "CometCatch" /\ c.gameState = "win") =>
        /\ ~c.runningRef /\ ~c.rafRef /\ ~c.spawnRef
        /\ awardCalls >= 1

-----------------------------------------------------------------------------
\* C7: in CometCatch a session that leaves AdPrompt without the ad being
\* watched is in Lost, and no reward commit is issued on the way.
C7_DeclineLoses ==
    [][ (game = "CometCatch" /\ c.gameState = "ad" /\ c'.gameState # "ad"
         /\ ads' = ads)
        => (c'.gameState = "lose" /\ awardCalls' = awardCalls) ]_vars

-----------------------------------------------------------------------------
\* C8: in a timed score-target game, when the time reaches 0 while playing
\* with the score below the target, the session goes to AdPrompt (at once,
\* or by the 0 ms timeout armed for it).
C8_TimeUpPrompts ==
    [][ LET target == CASE game = "CometCatch" -> CC_TARGET_SCORE
                        [] game = "GalaxySlice" -> GS_TARGET_SCORE
                        [] game = "GalaxyBlaster" -> GB_TARGET_SCORE
                        [] game = "OrbitDefense" -> OD_TARGET_SCORE
                        [] OTHER -> 0
        IN (c.gameState = "playing" /\ c.timeLeft > 0 /\ c'.timeLeft = 0
            /\ c.score < target /\ c'.score < target)
           => (c'.gameState = "ad" \/ "timeUp" \in c'.timeouts) ]_vars

-----------------------------------------------------------------------------
\* C9: the ad-watch action leaves the session in Playing with time left,
\* with a heart in the games with hearts, and with the frame loop and the
\* countdown of the game running.
C9_AdWatchResumes ==
    [][ ads' = ads + 1 =>
          ( /\ c'.gameState = "playing"
            /\ game \in {"CometCatch", "GalaxyRunner", "MemoryGame"} => c'.hearts >= 1
            /\ game # "MemoryGame" => c'.timeLeft > 0
            /\ game = "CometCatch" => (c'.runningRef /\ c'.rafRef)
            /\ game \in {"GalaxyRunner", "GalaxySlice", "GalaxyBlaster",
                          "OrbitDefense"} => (c'.rafRef /\ c'.timerRef)
            /\ game = "SlidePuzzle" => c'.timerRef ) ]_vars

-----------------------------------------------------------------------------
\* Play Again of the Win and Lost overlays of any game.
PlayAgain ==
    \/ CC_playAgain
    \/ CC_restartGame /\ c.gameState = "lose"
    \/ GR_handlePlayAgain
    \/ GS_resetToIdle /\ c.gameState = "win"
    \/ GB_handlePlayAgain
    \/ OD_handlePlayAgain
    \/ MG_toIdle /\ c.gameState = "win"
    \/ SP_resetToIdle
    \/ \E readOk \in BOOLEAN : CG_startGame(readOk) /\ c.gameState = "win"

\* C10: Play Again leaves the session in Idle with score, hearts, time,
\* board and entities as a mounted component shows them.
C10_PlayAgainResets ==
    [][ PlayAgain =>
          ( /\ c'.gameState = "idle"
            /\ c'.score = 0
            /\ c'.hearts = HeartsStart(game)
            /\ c'.timeLeft = StartTime(game)
            /\ c'.entities = << >>
            /\ c'.board = StartBoard(game) ) ]_vars

\* C11: once the player has left a game (Exit button or unmount), from any
\* state, nothing the session created is still scheduled: no animation
\* frame, no interval, no spawn timer and no timeout.
C11_ExitCancelsAll ==
    ~Mounted =>
        /\ ~c.rafRef /\ ~c.timerRef /\ ~c.spawnRef
        /\ c.timeouts = {}
        /\ c.orphans = {}

\* C12: whenever a session is in AdPrompt (state "ad"), its per-frame
\* callback, its spawn timer and its countdown interval are all unscheduled.
C12_AdPromptPaused ==
    c.gameState = "ad" => ~c.rafRef /\ ~c.spawnRef /\ ~c.timerRef

\* C13: every board shuffleSolvable returns, on every branch, holds each of
\* the tiles 0..7 once and one blank, has an even inversion count (blank
\* ignored) and is not the solved arrangement.
C13_ShuffleSolvable ==
    (fn.op = "shuffleSolvable" /\ fn.returned) =>
        /\ \A t \in 0 .. SP_TOTAL - 2 :
              Cardinality({ pos \in DOMAIN fn.out : fn.out[pos] = t }) = 1
        /\ Cardinality({ pos \in DOMAIN fn.out : fn.out[pos] = null }) = 1
        /\ Inversions(Flat(fn.out)) % 2 = 0
        /\ ~SP_solved(fn.out)

\* The endpoints of the pairs are pairwise distinct cells.
DistinctEndpoints(pairs) ==
    /\ \A i \in DOMAIN pairs : pairs[i].a # pairs[i].b
    /\ \A i, j \in DOMAIN pairs :
          i # j => {pairs[i].a, pairs[i].b} \cap {pairs[j].a, pairs[j].b} = {}

\* path leads from a to b by steps between orthogonally adjacent cells of
\* the grid.
Connects(path, a, b, size) ==
    /\ path # << >>
    /\ path[1] = a /\ path[Len(path)] = b
    /\ \A k \in DOMAIN path : path[k] \in Cells(size)
    /\ \A k \in 1 .. Len(path) - 1 : Distance(path[k], path[k + 1]) = 1

\* C14: when generateRoutedPairs returns from a successful attempt, the
\* endpoints are pairwise distinct, and every pair keeps a path from its a
\* to its b, by orthogonal steps inside the grid, that shares no cell with
\* the path or the endpoints of another pair.
C14_RoutedPairsDisjoint ==
    (fn.op = "generateRoutedPairs" /\ fn.returned /\ fn.routed) =>
        /\ DistinctEndpoints(fn.pairs)
        /\ \A i \in DOMAIN fn.pairs :
              Connects(fn.pairs[i].path, fn.pairs[i].a, fn.pairs[i].b, fn.size)
        /\ \A i, j \in DOMAIN fn.pairs :
              i # j => Range(fn.pairs[i].path) \cap
                         (Range(fn.pairs[j].path) \cup
                            {fn.pairs[j].a, fn.pairs[j].b}) = {}

\* Two routed pairs are returned, one of them by a path that is not
\* straight (it goes round the other pair).
C14_Witness ==
    /\ fn.op = "generateRoutedPairs" /\ fn.returned /\ fn.routed
    /\ Len(fn.pairs) >= 2
    /\ \E i \in DOMAIN fn.pairs :
          /\ fn.pairs[i].a.y = fn.pairs[i].b.y
          /\ Len(fn.pairs[i].path) > Distance(fn.pairs[i].a, fn.pairs[i].b) + 1

\* The paths from cell cur to cell goal by orthogonal steps inside the
\* grid that pass through no cell of `avoid` and through no cell twice.
RECURSIVE SimplePaths(_, _, _, _)
SimplePaths(cur, goal, avoid, size) ==
    IF cur = goal THEN { << cur >> }
    ELSE UNION { { << cur >> \o rest :
                     rest \in SimplePaths(nx, goal, avoid \cup {cur}, size) } :
                 nx \in Range(neighbors(cur, size)) \ avoid }

\* The pairs from the i-th on can be connected at once by paths that share
\* no cell with each other, with the cells of `taken` or with an endpoint
\* of another pair.
RECURSIVE Connectable(_, _, _, _)
Connectable(pairs, i, taken, size) ==
    \/ i > Len(pairs)
    \/ \E path \in SimplePaths(pairs[i].a, pairs[i].b,
                    taken \cup (CF_used(pairs) \ {pairs[i].a, pairs[i].b}), size) :
          Connectable(pairs, i + 1, taken \cup Range(path), size)

\* C15: the fallback layout generateRoutedPairs returns when its attempts
\* are used up is solvable: its endpoints are pairwise distinct cells and
\* its pairs can be connected at once by cell-disjoint paths on the grid.
C15_FallbackSolvable ==
    (fn.op = "generateRoutedPairs" /\ fn.returned /\ ~fn.routed) =>
        /\ DistinctEndpoints(fn.pairs)
        /\ Connectable(fn.pairs, 1, {}, fn.size)

\* C16: a board returned by createBoard holds no horizontal or vertical
\* run of three or more equal candies, whatever colours were drawn:
\* findAllMatches of it is empty.
C16_NoStartingMatch ==
    (fn.op = "createBoard" /\ fn.returned) => findAllMatches(fn.board) = {}

\* C17: in ConnectFlowGrid a displayed pair has a path only when it is
\* connected, and the path is then the one the player drew: the paths the
\* generator routed stay in solutionRef, through Start, Restart and Play
\* Again.
C17_SolutionNotExposed ==
    game = "ConnectFlowGrid" =>
        \A k \in DOMAIN c.pairs :
            c.pairs[k].path # "undefined" =>
                (c.pairs[k].connected /\ c.pairs[k].path = "drawn")

\* After a Play Again and a new Start, with routed paths in solutionRef,
\* the player has connected one pair of two.
C17_Witness ==
    /\ game = "ConnectFlowGrid"
    /\ c.gameState = "playing"
    /\ committed
    /\ \E k \in DOMAIN c.solutionRef : c.solutionRef[k].path = "routed"
    /\ \E k \in DOMAIN c.pairs : c.pairs[k].connected /\ c.pairs[k].path = "drawn"
    /\ \E k \in DOMAIN c.pairs : ~c.pairs[k].connected /\ c.pairs[k].path = "undefined"

\* What the reward commits have granted: the reward of the game, once its
\* ledger entry is today's and was not at the start.
AwardGranted ==
    IF store.lastPlayed = today /\ store0.lastPlayed # today
    THEN GameReward(game) ELSE 0

\* C18: however the reward commits of a mini-game and the daily-streak
\* writes on the same record interleave, no grant is lost: the diamonds are
\* the initial diamonds plus every amount a writer has granted.
C18_NoGrantLost ==
    fn.op = "streak" =>
        store.diamonds = store0.diamonds + AwardGranted + fn.granted

\* C19: the step dt of a frame is never negative and never more than the
\* maximum step of the game (60 ms CometCatch, 50 ms GalaxyRunner, 40 ms
\* GalaxySlice), however long the gap since the last frame.
C19_StepClamped ==
    (fn.op = "clock" /\ fn.framed) => (0 <= fn.dt /\ fn.dt <= MaxStep(game))

CentresWithin(a, b, r) ==
    \E k \in 0..r : k * k >= (a.x - b.x) * (a.x - b.x) + (a.y - b.y) * (a.y - b.y)

\* C21: a bullet and an asteroid the collision pass of OrbitDefense tests
\* (a bullet is consumed by its first hit) are reported as a hit if and only
\* if the distance of their centres is at most the sum of their radii, the
\* tangent case included.
C21_HitIffWithinRadii ==
    (fn.op = "collide" /\ fn.done) =>
        \A p \in fn.tested :
            (p \in fn.hits) <=>
                CentresWithin(fn.asteroids[p[2]], fn.bullets[p[1]],
                              fn.asteroids[p[2]].radius + fn.bullets[p[1]].radius)

\* A pass has reported a hit of a bullet and an asteroid that are exactly
\* tangent off the axes, and has tested a pair that is just out of reach.
C21_Witness ==
    /\ fn.op = "collide" /\ fn.done
    /\ \E p \in fn.hits :
         LET a == fn.asteroids[p[2]]
             b == fn.bullets[p[1]]
         IN /\ a.x # b.x /\ a.y # b.y
            /\ (a.x - b.x) * (a.x - b.x) + (a.y - b.y) * (a.y - b.y)
                 = (a.radius + b.radius) * (a.radius + b.radius)
    /\ \E p \in fn.tested \ fn.hits :
         LET a == fn.asteroids[p[2]]
             b == fn.bullets[p[1]]
         IN ~CentresWithin(a, b, a.radius + b.radius)
            /\ CentresWithin(a, b, a.radius + b.radius + 1)

\* The configured minimum of the spawn interval, in microseconds.
MinInterval(g) ==
    1000 * (CASE g = "GalaxyRunner" -> GR_MIN_INTERVAL_MS
              [] g = "OrbitDefense" -> OD_MIN_INTERVAL_MS
              [] g = "GalaxyBlaster" -> GB_MIN_INTERVAL_MS)

\* C22: within one session the spawn interval a frame uses is never more
\* than the one the frame before it used and never less than the configured
\* minimum (520 ms GalaxyRunner, 220 ms OrbitDefense, 180 ms GalaxyBlaster),
\* also after an ad-continue.
C22_IntervalRamp ==
    (fn.op = "spawn" /\ fn.used # null) =>
        /\ fn.used >= MinInterval(game)
        /\ fn.prevUsed # null => fn.used <= fn.prevUsed

\* C23: after every update step of GalaxyRunner, whatever the jumps before
\* it, the player's y is at least minPlayerPy and at most groundY - 12, and
\* when the update has applied the top clamp the vertical velocity is not
\* negative after it.
C23_PlayerInBounds ==
    (fn.op = "run" /\ fn.updates > 0) =>
        /\ GR_minPlayerPy(fn.h) * 10000000 <= fn.y
        /\ fn.y <= (GR_groundY(fn.h) - 12) * 10000000
        /\ fn.clampedTop => fn.vy >= 0

\* An update has applied the top clamp to a player who was still rising.
C23_Witness ==
    /\ fn.op = "run" /\ fn.clampedTop /\ ~fn.grounded
    /\ fn.y = GR_minPlayerPy(fn.h) * 10000000
    /\ fn.vy = 0

\* The multiplier follows the combo: it is 1 + min(3, 0.18 * floor(combo/4)),
\* it has not decreased over a hit and is at most 4, and after a miss the
\* combo is 0 and the multiplier 1.
MultiplierFollowsCombo ==
    /\ fn.multiplier = 100 + Min(300, 18 * (fn.combo \div 4))
    /\ fn.multiplier <= 400
    /\ fn.last = "hit" => fn.multiplier >= fn.multAtTap
    /\ fn.last = "miss" => (fn.combo = 0 /\ fn.multiplier = 100)

\* C24 as stated: the multiplier follows the combo, and the points a hit
\* adds are exactly the enemy's scoreValue times the multiplier in force at
\* that hit.
C24_PointsExactProduct ==
    fn.op = "combo" =>
        /\ MultiplierFollowsCombo
        /\ fn.last = "hit" => 100 * fn.added = fn.base * fn.multAtTap

\* C24, amended: the multiplier follows the combo, and the points a hit
\* adds are the enemy's scoreValue times the multiplier in force at that
\* hit, rounded to the nearest whole number.
C24_PointsRoundedProduct ==
    fn.op = "combo" =>
        /\ MultiplierFollowsCombo
        /\ fn.last = "hit" =>
             /\ 100 * fn.added - 50 <= fn.base * fn.multAtTap
             /\ fn.base * fn.multAtTap < 100 * fn.added + 50

\* The hit that raises the multiplier to its largest value, 4, has been
\* scored, and its product was not a whole number.
C24_Witness ==
    /\ fn.op = "combo" /\ fn.last = "hit"
    /\ fn.multAtTap < 400 /\ fn.multiplier = 400
    /\ (fn.base * fn.multAtTap) % 100 # 0

\* C25: in CometCatch, GalaxyRunner and MemoryGame the hearts are a whole
\* number from 0 to HEARTS_START in every reachable state, whatever the
\* collisions, mismatches and ad-continues; they are not negative after
\* several bombs are caught in one frame at 1 heart.
C25_HeartsInRange ==
    game \in {"CometCatch", "GalaxyRunner", "MemoryGame"} =>
        c.hearts \in 0..HeartsStart(game)

\* After an ad-continue, which leaves CometCatch with 1 heart, bombs have
\* been caught and the hearts are used up again.
C25_Witness ==
    /\ game = "CometCatch"
    /\ ads = 1
    /\ c.gameState = "ad"
    /\ c.hearts = 0

\* C26: the win check of a frame of CometCatch reads a score that includes
\* the points of the items caught in that frame: once a frame has brought
\* the score to the target, the session is no longer playing.
C26_WinSameFrame ==
    (game = "CometCatch" /\ c.gameState = "playing" /\ c.rafRef /\ c.lastTsRef) =>
        c.scoreRef < CC_TARGET_SCORE

\* C27: once a session has reached Win (its reward was invoked) and the
\* player has pressed Play Again, until the next Start there is no entity,
\* no frame callback is scheduled and no spawner is running.
C27_NoEntityOutlivesSession ==
    (c.gameState = "idle" /\ awardCalls > 0) =>
        /\ c.entities = << >>
        /\ ~c.rafRef
        /\ ~c.spawnRef

\* C28: while the ledger entry of the user and game carries today's date,
\* no step takes a session from idle into a run (its preview or its play),
\* whether or not the read of the daily limit succeeds.
C28_DailyLimitEnforced ==
    [][ (c.gameState = "idle" /\ store.lastPlayed = today)
            => c'.gameState \notin {"preview", "playing"} ]_vars

\* C29: in the puzzles that find a win by a delayed check (Match-3,
\* ConnectFlow, SlidePuzzle) no step takes a session that is in the ad
\* prompt or idle into win, and none invokes the reward for it.
C29_WinOnlyFromPlaying ==
    [][ (game \in {"Match3Game", "ConnectFlowGrid", "SlidePuzzle"}
         /\ c.gameState \in {"ad", "idle"})
            => (c'.gameState # "win" /\ awardCalls' <= awardCalls) ]_vars

\* C30: a session that is in win stays in win until Play Again takes it to
\* idle (in ChessGame, into the next game) or Exit unmounts it; no callback
\* of a pending timer takes it to the ad prompt or anywhere else.
C30_WinAbsorbing ==
    [][ c.gameState = "win" =>
            \/ c'.gameState \in {"win", "idle", "unmounted"}
            \/ game = "ChessGame" /\ c'.gameState = "playing" ]_vars

\* C31: the countdown interval of a session is active only while Playing:
\* in Preview, Win and Idle no interval is scheduled, so timeLeft is not
\* decremented there (AdPrompt is C12).
C31_CountdownOnlyWhilePlaying ==
    (Mounted /\ c.gameState \in {"preview", "win", "idle"}) => ~c.timerRef

-----------------------------------------------------------------------------
PreviewGames == {"SlidePuzzle", "ConnectFlowGrid", "MemoryGame"}

\* The board as the inputs of a preview game can change it.
BoardShown == << c.board, c.pairs >>

\* What a step of a preview game does to a session before and in Preview.
PreviewStep ==
    game \in PreviewGames =>
      /\ \A readOk \in BOOLEAN :
           (StartGame(readOk) /\ Refusal(readOk) = "none")
           => (c'.gameState = "preview" /\ "preview" \in c'.timeouts)
      /\ c.gameState = "preview" =>
           /\ ~c.timerRef
           /\ c'.gameState \in {"preview", "playing", "unmounted"}
           /\ c'.gameState = "preview" => BoardShown' = BoardShown
           /\ c'.gameState = "playing" =>
                ("preview" \in c.timeouts /\ "preview" \notin c'.timeouts)

-----------------------------------------------------------------------------
\* board holds each of the tiles 0..7 once and one blank.
SP_permutation(board) ==
    /\ \A t \in 0 .. SP_TOTAL - 2 : Cardinality({ i \in DOMAIN board : board[i] = t }) = 1
    /\ Cardinality({ i \in DOMAIN board : board[i] = null }) = 1

\* b2 is b1 with the blank and the tile in a cell next to it (in the same
\* row or the same column of the grid) exchanged.
SP_slid(b1, b2) ==
    \E t \in DOMAIN b1 : \E b \in DOMAIN b1 :
        /\ b1[b] = null /\ b1[t] # null
        /\ \/ SP_row(t) = SP_row(b) /\ Abs(SP_col(t) - SP_col(b)) = 1
           \/ SP_col(t) = SP_col(b) /\ Abs(SP_row(t) - SP_row(b)) = 1
        /\ b2 = [b1 EXCEPT ![t] = null, ![b] = b1[t]]

\* C33: a click on a tile or a key changes the board of SlidePuzzle only
\* while Playing, and then only by exchanging the blank with a tile next to
\* it in its row or column; so a board in Playing holds the tiles 0..7 once
\* each and one blank.
C33_OnlyLegalSlides ==
    /\ [][ (fn.op = "slide" /\ fn'.board # fn.board)
             => (fn.state = "playing" /\ SP_slid(fn.board, fn'.board)) ]_vars
    /\ [](fn.op = "slide" /\ fn.state = "playing" => SP_permutation(fn.board))

\* Tiles were slid in Playing and the blank is now in the last cell of a
\* row that has a row below it, where the next cell of the flat array is
\* not a neighbour.
C33_Witness ==
    /\ fn.op = "slide" /\ fn.state = "playing" /\ fn.moves > 0
    /\ fn.board \notin SP_boardsInPlay
    /\ \E b \in DOMAIN fn.board :
         /\ fn.board[b] = null
         /\ SP_col(b) = SP_COLS - 1 /\ SP_row(b) < SP_ROWS - 1

-----------------------------------------------------------------------------
\* The cells pair k holds: those of its committed path, or its two
\* endpoints while it is not connected.
CF_held(pairs, k) ==
    IF pairs[k].connected THEN Range(pairs[k].path)
    ELSE {pairs[k].a, pairs[k].b}

\* C34: no cell lies on the committed paths of two different pairs of
\* ConnectFlowGrid, and no committed path passes over an endpoint of a pair
\* that is not yet connected.
C34_PathsDoNotCross ==
    fn.op = "draw" =>
        \A i \in DOMAIN fn.pairs : \A j \in DOMAIN fn.pairs :
            (i # j /\ fn.pairs[i].connected)
            => Range(fn.pairs[i].path) \cap CF_held(fn.pairs, j) = {}

-----------------------------------------------------------------------------
\* The cards that are face up and not matched.
MG_faceUp(deck) == { i \in DOMAIN deck : deck[i].flipped /\ ~deck[i].matched }

\* C35: in Playing at most two unmatched cards of MemoryGame are face up,
\* and while a comparison or a flip-back is pending no further card is
\* turned face up, however the clicks fall between the timeouts.
C35_AtMostTwoFaceUp ==
    /\ [](fn.op = "flip" => Cardinality(MG_faceUp(fn.deck)) <= 2)
    /\ [][ (fn.op = "flip" /\ fn.timeouts # {})
             => MG_faceUp(fn'.deck) \subseteq MG_faceUp(fn.deck) ]_vars

\* Two cards that do not match are face up, their flip-back is pending, the
\* flip lock delay has passed and there are face-down cards left to click.
C35_Witness ==
    /\ fn.op = "flip" /\ fn.state = "playing"
    /\ Cardinality(MG_faceUp(fn.deck)) = 2
    /\ \E t \in fn.timeouts : t.kind = "flipBack"
    /\ fn.sinceFlip
    /\ \E i \in DOMAIN fn.deck : ~MG_showFace(fn.deck[i])


\* C36: exchangeDiamonds never drives the diamonds of a user below 0,
\* however the exchange requests and the other diamond writes interleave.
C36_DiamondsNeverNegative ==
    fn.op = "rewards" => fn.rec.diamonds >= 0


\* C37: a user can watch up to 20 ads a day: the ad count of the record
\* never exceeds 20 for its reset date, however the watchAd calls of the
\* pages follow each other or interleave, and the first watchAd call of a
\* new day is not refused for the limit.
C37_TwentyAdsADay ==
    fn.op = "rewards" =>
        /\ fn.rec.adCountToday <= AD_LIMIT
        /\ ~fn.firstRefused

\* The halves of C37, each on its own: the count, and the first call of a
\* new day.
C37_CountWithinLimit ==
    fn.op = "rewards" => fn.rec.adCountToday <= AD_LIMIT

C37_FirstCallAccepted ==
    fn.op = "rewards" => ~fn.firstRefused


\* The streak bonus of the first day of the behaviour: that of the record
\* at the start, when its lastLogin is not that day.
RW_bonus0 ==
    IF fn.rec0.lastLogin = today THEN 0
    ELSE diamondsEarned("checkDailyStreak", fn.rec0)

\* C39: the daily streak bonus is applied at most once a day, whatever
\* snapshots reach the Rewards pages and however many pages are open: over
\* the first day of the behaviour the streak is at most one more than at
\* the start, and the diamonds are at most those at the start, plus what
\* the ads have added, plus one streak bonus.
C39_OneBonusADay ==
    (fn.op = "rewards" /\ today = 1) =>
        /\ fn.rec.streak <= fn.rec0.streak + 1
        /\ fn.rec.diamonds <= fn.rec0.diamonds + fn.gains + RW_bonus0

\* Two pages were given the record before the bonus and the streak update
\* of each was applied, with an ad watched: one bonus was added.
C39_Witness ==
    /\ fn.op = "rewards" /\ today = 1
    /\ fn.bonuses = 2
    /\ fn.gains > 0
    /\ fn.rec.streak = fn.rec0.streak + 1
    /\ fn.rec.diamonds = fn.rec0.diamonds + fn.gains + RW_bonus0


\* C38: handlePredict generates and saves a prediction only when the
\* credits transaction of the call took 50 credits, and the credits never
\* become negative, however the predict requests of the sessions of a user
\* interleave.
C38_PredictionsArePaid ==
    fn.op = "predict" =>
        /\ fn.free = 0
        /\ fn.credits >= 0

====
